---- MODULE Spec2Model ----
(***************************************************************************)
(* picoWeatherAPI: the connection pool (src/src/database/database.c), the  *)
(* credential helpers and query composers (src/src/utils/utils.c) and the *)
(* services (src/src/core/weather.c).                                      *)
(*                                                                         *)
(* Several families of behaviours are described over the same variables:   *)
(*   PoolSpec     worker threads interleaving get_conn and release_conn;   *)
(*   Spec         user and session operations run one at a time on the    *)
(*                database, each borrowing a pooled connection;            *)
(*   StationSpec  logins, logouts, account deletion and station creation;  *)
(*   KeySpec      logins, logouts, stations and API keys of two users;     *)
(*   DeleteSpec   deletions of users, sessions and keys, present or not;   *)
(*   PatchSpec    logins and account changes of two users;                 *)
(*   QuerySpec    the weather-data query composers on bounded requests;    *)
(*   ZoneSpec     worker threads setting the time zone of their borrowed   *)
(*                connection before a weather-data query;                  *)
(*   HttpSpec     requests routed to their handlers and answered;          *)
(*   BootSpec     the process from the start of main to its exit;          *)
(*   JsonSpec     query results converted to JSON documents;               *)
(*   RaceSpec     worker threads creating stations for one user;           *)
(*   BodySpec     the body of a request arriving in chunks;                *)
(*   StaleSpec    worker threads logging in while the password changes;    *)
(*   FieldSpec    the fields parameter parsed and turned into columns.     *)
(***************************************************************************)
EXTENDS Integers, Sequences, FiniteSets, TLC

\* Pool size: MAX_CONN is 10 in database.c, scaled down here.
MAX_CONN == 2
\* Worker threads beyond the pool size (M = MAX_CONN + ExtraThreads > N).
ExtraThreads == 1

\* Bytes of entropy in a token: KEY_ENTROPY is 32 in utils.h, scaled down here.
KEY_ENTROPY == 1
\* Rows the users and user_sessions tables may grow to.
MaxUsers == 2
MaxSessions == 2
\* The clock advances in steps of one session age, at most MaxTicks times.
MaxTicks == 1
\* handlers: #define DEFAULT_SESSION_AGE 3600
DEFAULT_SESSION_AGE == 3600

NULL == "NULL"

Threads == 1..(MAX_CONN + ExtraThreads)

VARIABLES
    pool,       \* ConnWrapper pool[MAX_CONN]: [conn, busy]
    poolMutex,  \* owner of poolMutex, 0 when unlocked
    poolCond,   \* threads blocked in pthread_cond_wait(&poolCond, ...)
    pc,         \* per worker thread: where it is in get_conn / release_conn
    held,       \* per worker thread: the connection get_conn returned, 0 if none
    users,      \* auth.users, indexed by user_id
    sessions,   \* auth.user_sessions, indexed by row number (its uuid)
    now,        \* the database clock NOW(), in seconds
    last,       \* the service call being answered: its arguments and outcome
    deletedOK,  \* history: the users a users_delete that returned OK deleted
    stations,   \* stations.stations, indexed by row number (its uuid)
    api_keys,   \* auth.api_keys, indexed by row number (its uuid)
    wq          \* the weather-data request at hand and the query composed for it

threadVars == <<poolMutex, poolCond, pc, held>>

dbVars == <<users, sessions, now, last, deletedOK, stations, api_keys, wq>>

vars == <<pool, poolMutex, poolCond, pc, held, users, sessions, now, last, deletedOK, stations, api_keys, wq>>

-----------------------------------------------------------------------------
(* database.c: the pool *)

\* init_pool: every slot holds its own connection and is free.
InitPool == [i \in 1..MAX_CONN |-> [conn |-> i, busy |-> 0]]

\* get_conn's scan: the slots whose busy flag is 0.
FreeSlots(p) == {i \in DOMAIN p : p[i].busy = 0}

\* get_conn's scan is a linear sweep from index 0: the first free slot, 0 if none.
FirstFree(p) ==
    IF FreeSlots(p) = {} THEN 0
    ELSE CHOOSE i \in FreeSlots(p) : \A j \in FreeSlots(p) : i <= j

\* (mutation) get_conn hands the slot out without marking it busy.
MarkBusy_NoMark(p, i) == p

\* get_conn: pool[i].busy = 1
MarkBusy(p, i) == [p EXCEPT ![i].busy = 1]

\* (mutation) release_conn clears every slot's busy flag.
MarkFree_All(p, c) == [i \in DOMAIN p |-> [p[i] EXCEPT !.busy = 0]]

\* release_conn: the slot whose conn is the one handed back gets busy = 0;
\* the search stops at the first match, and no match changes nothing.
MarkFree(p, c) ==
    LET hits == {i \in DOMAIN p : p[i].conn = c}
    IN  IF hits = {} THEN p
        ELSE LET i == CHOOSE k \in hits : \A j \in hits : k <= j
             IN  [p EXCEPT ![i].busy = 0]

\* No weather-data request is at hand.
NoQuery == [stage |-> "none"]

\* No call is being answered.
Idle == [op |-> "idle"]

\* A timestamp column holding SQL NULL.
NoTime == 0 - 1

\* The seeded administrator, the only row of auth.users at start-up.
InitUsers ==
    << [uuid |-> "uuid-1", username |-> "root", email |-> "root@x.io",
        password |-> <<"argon2id", "pw1">>, max_stations |-> 0 - 1,
        is_admin |-> TRUE, deleted_at |-> NoTime] >>

DbInit ==
    /\ users = InitUsers
    /\ sessions = <<>>
    /\ now = 0
    /\ last = Idle
    /\ deletedOK = {}
    /\ stations = <<>>
    /\ api_keys = <<>>
    /\ wq = NoQuery

PoolInit ==
    /\ DbInit
    /\ pool = InitPool
    /\ poolMutex = 0
    /\ poolCond = {}
    /\ pc = [t \in Threads |-> "idle"]
    /\ held = [t \in Threads |-> 0]

\* A worker calls get_conn and queues on pthread_mutex_lock.
CallGetConn(t) ==
    /\ pc[t] = "idle"
    /\ pc' = [pc EXCEPT ![t] = "lock"]
    /\ UNCHANGED <<pool, poolMutex, poolCond, held>>
    /\ UNCHANGED dbVars

\* pthread_mutex_lock(&poolMutex) in get_conn succeeds.
LockGetConn(t) ==
    /\ pc[t] = "lock"
    /\ poolMutex = 0
    /\ poolMutex' = t
    /\ pc' = [pc EXCEPT ![t] = "scan"]
    /\ UNCHANGED <<pool, poolCond, held>>
    /\ UNCHANGED dbVars

\* One pass of the while(1) body with the mutex held: claim the first free
\* slot, unlock and return it; or pthread_cond_wait, which unlocks and blocks.
ScanGetConn(t) ==
    /\ pc[t] = "scan"
    /\ poolMutex = t
    /\ IF FirstFree(pool) # 0
       THEN /\ pool' = MarkBusy(pool, FirstFree(pool))
            /\ held' = [held EXCEPT ![t] = pool[FirstFree(pool)].conn]
            /\ pc' = [pc EXCEPT ![t] = "use"]
            /\ UNCHANGED poolCond
       ELSE /\ poolCond' = poolCond \cup {t}
            /\ pc' = [pc EXCEPT ![t] = "wait"]
            /\ UNCHANGED <<pool, held>>
    /\ poolMutex' = 0
    /\ UNCHANGED dbVars

\* pthread_cond_wait may return without a signal (POSIX spurious wakeup).
SpuriousWake(t) ==
    /\ pc[t] = "wait"
    /\ t \in poolCond
    /\ poolCond' = poolCond \ {t}
    /\ pc' = [pc EXCEPT ![t] = "relock"]
    /\ UNCHANGED <<pool, poolMutex, held>>
    /\ UNCHANGED dbVars

\* A woken waiter re-acquires the mutex inside pthread_cond_wait and re-scans.
RelockGetConn(t) ==
    /\ pc[t] = "relock"
    /\ poolMutex = 0
    /\ poolMutex' = t
    /\ pc' = [pc EXCEPT ![t] = "scan"]
    /\ UNCHANGED <<pool, poolCond, held>>
    /\ UNCHANGED dbVars

\* The borrower calls release_conn(conn): pthread_mutex_lock succeeds.
LockRelease(t) ==
    /\ pc[t] = "use"
    /\ poolMutex = 0
    /\ poolMutex' = t
    /\ pc' = [pc EXCEPT ![t] = "release"]
    /\ UNCHANGED <<pool, poolCond, held>>
    /\ UNCHANGED dbVars

\* (mutation) release_conn forgets pthread_cond_signal.
SignalWakes_Nobody(waiters) == {{}}

\* pthread_cond_signal(&poolCond): the sets of threads it may unblock, one of
\* the blocked threads if there is any.
SignalWakes(waiters) ==
    IF waiters = {} THEN {{}} ELSE {{w} : w \in waiters}

\* release_conn's body: clear the slot, pthread_cond_signal, unlock.
ReleaseBody(t) ==
    /\ pc[t] = "release"
    /\ poolMutex = t
    /\ pool' = MarkFree(pool, held[t])
    /\ held' = [held EXCEPT ![t] = 0]
    /\ poolMutex' = 0
    /\ \E woken \in SignalWakes(poolCond) :
           /\ poolCond' = poolCond \ woken
           /\ pc' = [x \in Threads |-> IF x = t THEN "idle"
                                       ELSE IF x \in woken THEN "relock" ELSE pc[x]]

\* release_conn's body run by a worker of the pool.
BodyRelease(t) ==
    /\ ReleaseBody(t)
    /\ UNCHANGED dbVars

PoolNext ==
    \E t \in Threads :
        \/ CallGetConn(t)
        \/ LockGetConn(t)
        \/ ScanGetConn(t)
        \/ SpuriousWake(t)
        \/ RelockGetConn(t)
        \/ LockRelease(t)
        \/ BodyRelease(t)

PoolSpec == PoolInit /\ [][PoolNext]_vars

\* Scheduling assumed for liveness: a thread that holds the mutex runs on
\* (weak fairness of the steps taken with the mutex held), and the mutex is
\* granted fairly (strong fairness of each lock acquisition).  Whether a
\* worker issues another request is left open.
PoolFairness ==
    \A t \in Threads :
        /\ SF_vars(LockGetConn(t))
        /\ SF_vars(RelockGetConn(t))
        /\ SF_vars(LockRelease(t))
        /\ WF_vars(ScanGetConn(t))
        /\ WF_vars(BodyRelease(t))

PoolFairSpec == PoolInit /\ [][PoolNext]_vars /\ PoolFairness

-----------------------------------------------------------------------------
(* utils.c: tokens, hashes and the credential checks *)

\* Values a token byte can take (a byte has 256 values; two are kept).
Bytes == {0, 1}

\* The URL-safe base64 alphabet, cut down to one character per byte value.
B64Alphabet == <<"A", "B">>

IsB64Char(c) == \E b \in Bytes : B64Alphabet[b + 1] = c

B64Value(c) == CHOOSE b \in Bytes : B64Alphabet[b + 1] = c

\* sodium_bin2base64: the transport form of a byte string.
Bin2Base64(bin) == [i \in 1..Len(bin) |-> B64Alphabet[bin[i] + 1]]

\* sodium_base642bin(bin, sizeof bin, b64, strlen(b64), NULL, NULL, NULL, variant):
\* fails (-1) on a character outside the alphabet or when the text decodes to
\* more than sizeof bin bytes; otherwise it returns 0 having written the
\* decoded bytes at the front of bin.  The bytes of bin past the decoded
\* length are left as they were, and bin_len is not asked for.
Base642Bin(bin, b64) ==
    IF (\E i \in 1..Len(b64) : ~IsB64Char(b64[i])) \/ Len(b64) > Len(bin)
    THEN [rc |-> 0 - 1, bin |-> bin]
    ELSE [rc |-> 0,
          bin |-> [i \in 1..Len(bin) |->
                      IF i <= Len(b64) THEN B64Value(b64[i]) ELSE bin[i]]]

\* crypto_generichash: collision-free, and no digest is the text of a token.
GenericHash(bin) ==
    <<1>> \o [i \in 1..Len(bin) |-> (bin[i] + 1) % Cardinality(Bytes)]

\* The value stored in session_token: base64 of the hash of the raw bytes.
TokenHashB64(bin) == Bin2Base64(GenericHash(bin))

\* What `unsigned char recievedToken[KEY_ENTROPY]` can hold before it is
\* written: it is an uninitialised automatic array.
UninitBuffers == [1..KEY_ENTROPY -> Bytes]

\* The cookie is absent (authData->sessionToken == NULL).
NoToken == <<NULL>>

\* The uninitialised contents that can make a difference for this token: the
\* buffer is only read where the decoder has not written it.
ResiduesFor(tok) ==
    IF tok # NoToken /\ Base642Bin([i \in 1..KEY_ENTROPY |-> 0], tok).rc = 0
       /\ Len(tok) < KEY_ENTROPY
    THEN UninitBuffers
    ELSE {[i \in 1..KEY_ENTROPY |-> 0]}

\* crypto_pwhash_str / crypto_pwhash_str_verify
PwHashStr(pw) == <<"argon2id", pw>>

\* (mutation) every password verifies.
PwVerify_Any(hash, pw) == TRUE

PwVerify(hash, pw) == hash = PwHashStr(pw)

IsNullTime(x) == x < 0

\* WHERE uuid::text = $1 OR username = $1 (a NULL parameter matches no row)
MatchUser(us, ref) ==
    {u \in DOMAIN us : ref # NULL /\ (us[u].uuid = ref \/ us[u].username = ref)}

\* (mutation) the stored hash is not compared with the password.
validate_password_Found(us, userId, password, dbok) ==
    password # NULL /\ dbok /\ Cardinality(MatchUser(us, userId)) = 1

\* validate_password: dbok is false when the SELECT fails.
validate_password(us, userId, password, dbok) ==
    IF password = NULL \/ userId = NULL THEN FALSE
    ELSE IF ~dbok THEN FALSE
    ELSE IF Cardinality(MatchUser(us, userId)) # 1 THEN FALSE
    ELSE LET u == CHOOSE x \in MatchUser(us, userId) : TRUE
         IN  PwVerify(us[u].password, password)

\* (mutation) the lookup forgets AND u.deleted_at IS NULL.
SessionRowMatches_NoDeleted(us, ss, t, i, hashB64, userId) ==
    LET s == ss[i]
        u == us[s.user_id]
    IN  /\ s.session_token = hashB64
        /\ s.expires_at > t
        /\ IsNullTime(s.revoked_at)
        /\ \/ userId = NULL /\ u.is_admin
           \/ userId # NULL /\ (u.is_admin \/ u.uuid = userId \/ u.username = userId)

\* (mutation) the session's owner is not checked against userRef.
SessionRowMatches_AnyScope(us, ss, t, i, hashB64, userId) ==
    /\ ss[i].session_token = hashB64
    /\ ss[i].expires_at > t
    /\ IsNullTime(ss[i].revoked_at)
    /\ IsNullTime(us[ss[i].user_id].deleted_at)

\* The WHERE clause of validate_session_token's SELECT, for session row i.
SessionRowMatches(us, ss, t, i, hashB64, userId) ==
    LET s == ss[i]
        u == us[s.user_id]
    IN  /\ s.session_token = hashB64
        /\ s.expires_at > t
        /\ IsNullTime(s.revoked_at)
        /\ IsNullTime(u.deleted_at)
        /\ \/ userId = NULL /\ u.is_admin
           \/ userId # NULL /\ (u.is_admin \/ u.uuid = userId \/ u.username = userId)

\* validate_session_token: residue is what recievedToken held on entry, dbok
\* is false when the SELECT fails.
validate_session_token(us, ss, t, userId, sessionToken, residue, dbok) ==
    IF sessionToken = NoToken THEN FALSE
    ELSE LET d == Base642Bin(residue, sessionToken)
         IN  IF d.rc # 0 THEN FALSE
             ELSE IF ~dbok THEN FALSE
             ELSE \E i \in DOMAIN ss :
                     SessionRowMatches(us, ss, t, i, TokenHashB64(d.bin), userId)

\* validate_admin_session_token: the same check with userRef := NULL.
validate_admin_session_token(us, ss, t, sessionToken, residue, dbok) ==
    validate_session_token(us, ss, t, NULL, sessionToken, residue, dbok)

\* validate_name (3 to 30 characters of [A-Za-z0-9_-]) and validate_email
\* (local@domain.tld), as they answer on the strings the requests carry: the
\* one-letter name "x" is too short, "nomail" has no '@'.
WellFormedNames == {"root", "alice", "bob", "garden", "upload"}

validate_name(str) == str \in WellFormedNames

WellFormedEmails == {"root@x.io", "a@x.io"}

validate_email(str) == str \in WellFormedEmails

-----------------------------------------------------------------------------
(* weather.c: the user and session services *)

\* What a service call did: its apiError_t, the tables as it leaves them,
\* whether it borrowed a connection (get_conn) and gave it back
\* (release_conn), what validate_session_token answered, the user row it
\* wrote, and the plaintext token it handed to its caller.
Outcome(ret, us, ss, borrowed, released, authed, uid, token) ==
    [ret |-> ret, users |-> us, sessions |-> ss, borrowed |-> borrowed,
     released |-> released, authed |-> authed, uid |-> uid, token |-> token]

\* A return before get_conn.
Early(ret, us, ss) == Outcome(ret, us, ss, FALSE, FALSE, FALSE, 0, NoToken)

\* A return after release_conn(conn).
Released(ret, us, ss, authed, uid) ==
    Outcome(ret, us, ss, TRUE, TRUE, authed, uid, NoToken)

\* A return that leaves the borrowed connection marked busy.
Unreleased(ret, us, ss, authed) ==
    Outcome(ret, us, ss, TRUE, FALSE, authed, 0, NoToken)

\* The unique constraints of auth.users on username and on email: would
\* giving row u this username / email collide with another row?
UniqueViolation(us, u, username, email) ==
    \E v \in DOMAIN us \ {u} :
        \/ username # NULL /\ us[v].username = username
        \/ email # NULL /\ us[v].email = email

\* uuid::text of the row with user_id n.
UuidTexts == <<"uuid-1", "uuid-2", "uuid-3", "uuid-4">>

\* Column defaults of auth.users for a row inserted by users_create.
NewUserRow(n, username, email, hashedPassword) ==
    [uuid |-> UuidTexts[n],
     username |-> username, email |-> email, password |-> hashedPassword,
     max_stations |-> 1, is_admin |-> FALSE, deleted_at |-> NoTime]

\* COALESCE($n, col) for a parameter given as <<>> (NULL) or <<value>>.
Coalesce(param, col) == IF param = <<>> THEN col ELSE param[1]

\* (mutation) the listing forgets WHERE deleted_at IS NULL.
ListedUsers_WithDeleted(us, userId) ==
    {u \in DOMAIN us :
        userId = NULL \/ us[u].uuid = userId \/ us[u].username = userId}

\* users_list's SELECT: WHERE deleted_at IS NULL AND ($1::text IS NULL OR
\* uuid::text = $1::text OR username = $1::text)
ListedUsers(us, userId) ==
    {u \in DOMAIN us :
        /\ IsNullTime(us[u].deleted_at)
        /\ (userId = NULL \/ us[u].uuid = userId \/ us[u].username = userId)}

\* users_list
users_list(us, ss, t, userId, tok, residue, fault) ==
    IF tok = NoToken THEN Early("AUTH_ERROR", us, ss)
    ELSE IF ~validate_session_token(us, ss, t, userId, tok, residue, fault # "validate")
    THEN Released("AUTH_ERROR", us, ss, FALSE, 0)
    ELSE IF fault = "query" THEN Released("DB_ERROR", us, ss, TRUE, 0)
    ELSE LET rows == ListedUsers(us, userId)
         IN  IF rows = {} THEN Released("NOT_FOUND", us, ss, TRUE, 0)
             ELSE IF fault = "json" THEN Released("JSON_ERROR", us, ss, TRUE, 0)
             ELSE Released("OK", us, ss, TRUE, 0)

\* users_create
users_create(us, ss, username, email, password, fault) ==
    IF username = NULL \/ email = NULL \/ password = NULL
    THEN Early("INVALID_PARAMS", us, ss)
    ELSE IF ~validate_name(username) THEN Early("INVALID_PARAMS", us, ss)
    ELSE IF ~validate_email(email) THEN Early("INVALID_PARAMS", us, ss)
    ELSE IF fault = "pwhash" THEN Early("MEMORY_ERROR", us, ss)
    ELSE IF fault = "insert" \/ UniqueViolation(us, 0, username, email)
    THEN Released("DB_ERROR", us, ss, FALSE, 0)
    ELSE LET n == Len(us) + 1
             us2 == Append(us, NewUserRow(n, username, email, PwHashStr(password)))
         IN  IF fault = "select" THEN Released("DB_ERROR", us2, ss, FALSE, n)
             ELSE IF fault = "json" THEN Released("JSON_ERROR", us2, ss, FALSE, n)
             ELSE Released("OK", us2, ss, FALSE, n)

\* users_delete's UPDATE: SET deleted_at = now() WHERE (uuid::text = $1 OR
\* username = $1) AND deleted_at IS NULL
SoftDelete(us, t, userId) ==
    [u \in DOMAIN us |->
        IF u \in MatchUser(us, userId) /\ IsNullTime(us[u].deleted_at)
        THEN [us[u] EXCEPT !.deleted_at = t]
        ELSE us[u]]

\* users_delete; uid is the row the UPDATE touched, 0 if none.
users_delete(us, ss, t, userId, tok, residue, fault) ==
    IF tok = NoToken THEN Early("AUTH_ERROR", us, ss)
    ELSE IF ~validate_session_token(us, ss, t, userId, tok, residue, fault # "validate")
    THEN Released("AUTH_ERROR", us, ss, FALSE, 0)
    ELSE IF fault = "update" THEN Released("DB_ERROR", us, ss, TRUE, 0)
    ELSE LET hit == {u \in MatchUser(us, userId) : IsNullTime(us[u].deleted_at)}
         IN  Released("OK", SoftDelete(us, t, userId), ss, TRUE,
                      IF hit = {} THEN 0 ELSE CHOOSE u \in hit : TRUE)

\* users_patch's UPDATE of one row.
PatchRow(row, username, email, maxStations, isAdmin, hashed) ==
    [row EXCEPT
        !.username = IF username = NULL THEN @ ELSE username,
        !.email = IF email = NULL THEN @ ELSE email,
        !.max_stations = Coalesce(maxStations, @),
        !.is_admin = Coalesce(isAdmin, @),
        !.password = Coalesce(hashed, @)]

\* users_patch's second UPDATE: SET revoked_at = NOW() WHERE user_id =
\* (SELECT user_id FROM auth.users WHERE uuid::text = $1 OR username = $1)
\* AND revoked_at IS NULL, run on the table as the first UPDATE left it.
RevokeSessionsOf(us, ss, t, userId) ==
    [i \in DOMAIN ss |->
        IF ss[i].user_id \in MatchUser(us, userId) /\ IsNullTime(ss[i].revoked_at)
        THEN [ss[i] EXCEPT !.revoked_at = t]
        ELSE ss[i]]

\* (mutation) $4 and $5 are filled in whoever asks.
AdminOnly_Anyone(admin, param) == param

\* users_patch: paramValues[3] and paramValues[4] stay NULL unless
\* validate_admin_session_token accepts the caller.
AdminOnly(admin, param) == IF admin THEN param ELSE <<>>

\* users_patch.  residue2 is the uninitialised buffer of the second token
\* check (validate_admin_session_token).
users_patch(us, ss, t, userId, username, email, maxStations, isAdmin, oldPass, newPass, tok, residue, residue2, fault) ==
    IF tok = NoToken THEN Early("AUTH_ERROR", us, ss)
    ELSE IF userId = NULL THEN Early("INVALID_PARAMS", us, ss)
    ELSE IF username # NULL /\ ~validate_name(username)
    THEN Early("INVALID_PARAMS", us, ss)
    ELSE IF email # NULL /\ ~validate_email(email)
    THEN Early("INVALID_PARAMS", us, ss)
    ELSE IF ~validate_session_token(us, ss, t, userId, tok, residue, fault # "validate")
    THEN Released("AUTH_ERROR", us, ss, FALSE, 0)
    ELSE IF (oldPass # NULL \/ newPass # NULL)
            /\ ~validate_password(us, userId, oldPass, fault # "pwquery")
    THEN Unreleased("AUTH_ERROR", us, ss, TRUE)
    ELSE IF (oldPass # NULL \/ newPass # NULL) /\ newPass = NULL
    THEN Unreleased("CRASH", us, ss, TRUE)    \* strlen(newPass) on NULL
    ELSE IF (oldPass # NULL \/ newPass # NULL) /\ fault = "pwhash"
    THEN Unreleased("MEMORY_ERROR", us, ss, TRUE)
    ELSE LET hashed == IF oldPass # NULL \/ newPass # NULL
                       THEN <<PwHashStr(newPass)>> ELSE <<>>
             admin == validate_admin_session_token(us, ss, t, tok, residue2,
                                                   fault # "admin")
             p4 == AdminOnly(admin, maxStations)
             p5 == AdminOnly(admin, isAdmin)
             hit == MatchUser(us, userId)
         IN  IF fault = "update"
                \/ \E u \in hit : UniqueViolation(us, u, username, email)
             THEN Released("DB_ERROR", us, ss, TRUE, 0)
             ELSE IF hit = {} THEN Released("NOT_FOUND", us, ss, TRUE, 0)
             ELSE LET us2 == [u \in DOMAIN us |->
                                IF u \in hit
                                THEN PatchRow(us[u], username, email, p4, p5, hashed)
                                ELSE us[u]]
                      uid == CHOOSE u \in hit : TRUE
                  IN  IF fault = "json" THEN Released("JSON_ERROR", us2, ss, TRUE, uid)
                      ELSE IF fault = "revoke"
                      THEN Released("DB_ERROR", us2, ss, TRUE, uid)
                      ELSE Released("OK", us2, RevokeSessionsOf(us2, ss, t, userId),
                                    TRUE, uid)

\* (mutation) the token's text is stored in place of its hash.
generateSessionToken_Plain(rnd) ==
    [tokenB64 |-> Bin2Base64(rnd), hashB64 |-> Bin2Base64(rnd)]

\* generateSessionToken: rnd is what randombytes_buf produced.
generateSessionToken(rnd) ==
    [tokenB64 |-> Bin2Base64(rnd), hashB64 |-> TokenHashB64(rnd)]

\* sessions_create's INSERT ... SELECT: one row per user matching $2.
InsertSessions(us, ss, t, userId, hashB64, maxAge) ==
    IF MatchUser(us, userId) = {} THEN ss
    ELSE Append(ss, [user_id |-> CHOOSE u \in MatchUser(us, userId) : TRUE,
                     session_token |-> hashB64,
                     expires_at |-> t + maxAge,
                     revoked_at |-> NoTime])

\* sessions_create
sessions_create(us, ss, t, userId, password, maxAge, rnd, fault) ==
    IF userId = NULL \/ password = NULL THEN Early("AUTH_ERROR", us, ss)
    ELSE IF ~validate_password(us, userId, password, fault # "pwquery")
    THEN Unreleased("AUTH_ERROR", us, ss, FALSE)
    ELSE LET g == generateSessionToken(rnd)
             ss2 == InsertSessions(us, ss, t, userId, g.hashB64, maxAge)
             uid == CHOOSE u \in MatchUser(us, userId) : TRUE
         IN  IF fault = "insert" THEN Unreleased("DB_ERROR", us, ss, FALSE)
             ELSE IF fault = "select"
             THEN Released("DB_ERROR", us, ss2, FALSE, uid)
             ELSE IF fault = "json"
             THEN Released("JSON_ERROR", us, ss2, FALSE, uid)
             ELSE Outcome("OK", us, ss2, TRUE, TRUE, FALSE, uid, g.tokenB64)

\* sessions_list; sessionUUID 0 stands for NULL.
sessions_list(us, ss, t, userId, sessionUUID, tok, residue, fault) ==
    IF tok = NoToken \/ userId = NULL THEN Early("INVALID_PARAMS", us, ss)
    ELSE IF ~validate_session_token(us, ss, t, userId, tok, residue, fault # "validate")
    THEN Unreleased("AUTH_ERROR", us, ss, FALSE)
    ELSE IF fault = "query" THEN Released("DB_ERROR", us, ss, TRUE, 0)
    ELSE LET rows == {i \in DOMAIN ss :
                        /\ ss[i].expires_at > t
                        /\ IsNullTime(ss[i].revoked_at)
                        /\ ss[i].user_id \in MatchUser(us, userId)
                        /\ (sessionUUID = 0 \/ i = sessionUUID)}
         IN  IF rows = {} THEN Released("NOT_FOUND", us, ss, TRUE, 0)
             ELSE IF fault = "json" THEN Released("JSON_ERROR", us, ss, TRUE, 0)
             ELSE Released("OK", us, ss, TRUE, 0)

\* (mutation) a second DELETE of the same session clears revoked_at again.
RevokeSession_Toggle(ss, t, sessionUUID) ==
    [i \in DOMAIN ss |->
        IF i = sessionUUID
        THEN [ss[i] EXCEPT !.revoked_at = IF IsNullTime(@) THEN t ELSE NoTime]
        ELSE ss[i]]

\* sessions_delete's UPDATE: SET revoked_at = now() WHERE (uuid::text = $1)
RevokeSession(ss, t, sessionUUID) ==
    [i \in DOMAIN ss |->
        IF i = sessionUUID THEN [ss[i] EXCEPT !.revoked_at = t] ELSE ss[i]]

\* sessions_delete
sessions_delete(us, ss, t, userId, sessionUUID, tok, residue, fault) ==
    IF tok = NoToken THEN Early("AUTH_ERROR", us, ss)
    ELSE IF ~validate_session_token(us, ss, t, userId, tok, residue, fault # "validate")
    THEN Released("AUTH_ERROR", us, ss, FALSE, 0)
    ELSE IF fault = "update" THEN Released("DB_ERROR", us, ss, TRUE, 0)
    ELSE Released("OK", us, RevokeSession(ss, t, sessionUUID), TRUE, 0)

-----------------------------------------------------------------------------
(* The requests explored *)

\* {id} of /users/{id}: absent, a username or a UUID.
UserRefs == {NULL, "root", "alice", "bob"} \cup {UuidTexts[i] : i \in 1..MaxUsers}

\* The sessiontoken cookie: absent, not base64, too long, or any text of at
\* most KEY_ENTROPY characters (the empty cookie included).
TokenInputs ==
    {NoToken, <<"!">>, [i \in 1..(KEY_ENTROPY + 1) |-> "A"]}
        \cup UNION {[1..n -> {B64Alphabet[k] : k \in DOMAIN B64Alphabet}] :
                        n \in 0..KEY_ENTROPY}

\* The (userRef, cookie) pairs of the authenticated requests: every reference
\* with every decodable cookie, and the cookies that are absent or do not
\* decode with one reference and with none.
Credentials ==
    (UserRefs \X {tok \in TokenInputs :
                    tok # NoToken /\ Base642Bin([i \in 1..KEY_ENTROPY |-> 0], tok).rc = 0})
        \cup ({NULL, "root"} \X TokenInputs)

Passwords == {"pw1", "pw2"}

\* Bodies of PATCH /users/{id}: a new username, a password change (to the
\* password the user already has, so the stored hash keeps to one value), one
\* with the wrong old password, one without newPass, and their mixes.
PatchRequests ==
    [username : {NULL, "bob"}, email : {NULL}, maxStations : {<<>>},
     isAdmin : {<<>>},
     pass : {<<NULL, NULL>>, <<"pw1", "pw1">>, <<"pw2", "pw1">>, <<"pw1", NULL>>}]

\* The body the failing queries of users_patch are tried with.
FaultedPatchRequest ==
    [username |-> "bob", email |-> NULL, maxStations |-> <<>>,
     isAdmin |-> <<>>, pass |-> <<"pw1", "pw1">>]

\* randombytes_buf: a token whose hash is in no stored row (32 random bytes
\* do not repeat).
FreshTokens ==
    {b \in UninitBuffers :
        \A i \in DOMAIN sessions : sessions[i].session_token # TokenHashB64(b)}

\* Does the cookie pass validate_session_token now, all queries succeeding?
\* A failing query matters only for a call that would get past the check.
Passes(userId, tok, residue) ==
    validate_session_token(users, sessions, now, userId, tok, residue, TRUE)

FaultsOf(passes, faults) == IF passes THEN {"none"} \cup faults ELSE {"none"}

\* The worker thread, free of any earlier request (last = Idle in each
\* operation below), runs one service call: it borrows pool slot FirstFree
\* (get_conn blocks for ever when there is none), the call leaves the tables
\* and the slot as its outcome says, and the call's answer is with the handler.
\* Of the request, last keeps what the properties below look at: the
\* reference and the cookie of users_list (which changes nothing), the
\* reference of sessions_create, and whether every query succeeded.
Finish(op, userId, tok, fault, outcome) ==
    /\ \E o \in {outcome} :
        /\ o.borrowed => FirstFree(pool) # 0
        /\ Len(o.users) <= MaxUsers
        /\ Len(o.sessions) <= MaxSessions
        /\ users' = o.users
        /\ sessions' = o.sessions
        /\ pool' = IF ~o.borrowed THEN pool
                   ELSE LET i == FirstFree(pool)
                        IN  IF o.released
                            THEN MarkFree(MarkBusy(pool, i), pool[i].conn)
                            ELSE MarkBusy(pool, i)
        /\ last' = [op |-> op,
                    ref |-> IF op \in {"users_list", "sessions_create"}
                            THEN userId ELSE NULL,
                    tok |-> IF op = "users_list" THEN tok ELSE NoToken,
                    clean |-> fault = "none",
                    ret |-> o.ret, authed |-> o.authed, uid |-> o.uid,
                    token |-> o.token, borrowed |-> o.borrowed,
                    released |-> o.released]
        /\ deletedOK' = IF op = "users_delete" /\ o.ret = "OK" /\ o.uid # 0
                        THEN deletedOK \cup {o.uid} ELSE deletedOK
    /\ UNCHANGED <<now, poolMutex, poolCond, pc, held, stations, api_keys, wq>>

UsersList ==
    /\ last = Idle
    /\ \E <<userId, tok>> \in Credentials :
           \E residue \in ResiduesFor(tok) :
               \E fault \in FaultsOf(Passes(userId, tok, residue),
                                     {"validate", "query", "json"}) :
                   Finish("users_list", userId, tok, fault,
                          users_list(users, sessions, now, userId, tok, residue, fault))

UsersCreate ==
    /\ last = Idle
    /\ \E username \in {"x", "alice"}, email \in {"nomail", "a@x.io"},
          password \in {"pw1"} :
           \E fault \in FaultsOf(validate_name(username) /\ validate_email(email),
                                 {"pwhash", "insert", "select", "json"}) :
               Finish("users_create", username, NoToken, fault,
                      users_create(users, sessions, username, email, password, fault))

UsersDelete ==
    /\ last = Idle
    /\ \E <<userId, tok>> \in Credentials :
           \E residue \in ResiduesFor(tok) :
               \E fault \in FaultsOf(Passes(userId, tok, residue),
                                     {"validate", "update"}) :
                   Finish("users_delete", userId, tok, fault,
                          users_delete(users, sessions, now, userId, tok, residue, fault))

UsersPatch ==
    /\ last = Idle
    /\ \E <<userId, tok>> \in Credentials :
           \E residue \in ResiduesFor(tok), residue2 \in ResiduesFor(tok) :
               \E fault \in FaultsOf(Passes(userId, tok, residue),
                                     {"validate", "pwquery", "pwhash", "admin",
                                      "update", "json", "revoke"}) :
                   \E req \in IF fault = "none" /\ Passes(userId, tok, residue)
                              THEN PatchRequests ELSE {FaultedPatchRequest} :
                       Finish("users_patch", userId, tok, fault,
                              users_patch(users, sessions, now, userId, req.username,
                                          req.email, req.maxStations, req.isAdmin,
                                          req.pass[1], req.pass[2], tok, residue,
                                          residue2, fault))

SessionsCreate ==
    /\ last = Idle
    /\ \E userId \in UserRefs, password \in {NULL} \cup Passwords :
           IF validate_password(users, userId, password, TRUE)
           THEN \E rnd \in FreshTokens,
                   fault \in {"none", "pwquery", "insert", "select", "json"} :
                   Finish("sessions_create", userId, NoToken, fault,
                          sessions_create(users, sessions, now, userId, password,
                                          DEFAULT_SESSION_AGE, rnd, fault))
           ELSE \E rnd \in {[i \in 1..KEY_ENTROPY |-> 0]} :
                   Finish("sessions_create", userId, NoToken, "none",
                          sessions_create(users, sessions, now, userId, password,
                                          DEFAULT_SESSION_AGE, rnd, "none"))

SessionsList ==
    /\ last = Idle
    /\ \E <<userId, tok>> \in Credentials :
           \E residue \in ResiduesFor(tok) :
               \E fault \in FaultsOf(Passes(userId, tok, residue),
                                     {"validate", "query", "json"}) :
               \E sessionUUID \in IF fault = "none" /\ Passes(userId, tok, residue)
                                  THEN 0..MaxSessions ELSE {0} :
                   Finish("sessions_list", userId, tok, fault,
                          sessions_list(users, sessions, now, userId, sessionUUID,
                                        tok, residue, fault))

SessionsDelete ==
    /\ last = Idle
    /\ \E <<userId, tok>> \in Credentials :
           \E residue \in ResiduesFor(tok) :
               \E fault \in FaultsOf(Passes(userId, tok, residue),
                                     {"validate", "update"}),
                  sessionUUID \in IF Passes(userId, tok, residue)
                                  THEN 1..MaxSessions ELSE {1} :
                   Finish("sessions_delete", userId, tok, fault,
                          sessions_delete(users, sessions, now, userId, sessionUUID,
                                          tok, residue, fault))

\* The handler has turned the outcome into the HTTP response; the worker is
\* free for the next request.  A crashed process answers nothing any more.
Respond ==
    /\ last # Idle
    /\ last.ret # "CRASH"
    /\ last' = Idle
    /\ UNCHANGED <<pool, poolMutex, poolCond, pc, held, users, sessions, now,
                   deletedOK, stations, api_keys, wq>>

\* NOW() moves on by one session age.
Tick ==
    /\ last = Idle
    /\ now + DEFAULT_SESSION_AGE <= MaxTicks * DEFAULT_SESSION_AGE
    /\ now' = now + DEFAULT_SESSION_AGE
    /\ UNCHANGED <<pool, poolMutex, poolCond, pc, held, users, sessions, last,
                   deletedOK, stations, api_keys, wq>>

Init == PoolInit

Next ==
    \/ UsersList
    \/ UsersCreate
    \/ UsersDelete
    \/ UsersPatch
    \/ SessionsCreate
    \/ SessionsList
    \/ SessionsDelete
    \/ Respond
    \/ Tick

Spec == Init /\ [][Next]_vars

-----------------------------------------------------------------------------
(* Claims about the pool *)

\* The threads that hold a connection get_conn returned and have not yet
\* given back.
HandedOut == {t \in Threads : held[t] # 0}

\* The threads inside get_conn.
InGetConn == {t \in Threads : pc[t] \in {"lock", "scan", "wait", "relock"}}

\* C2: with N = MAX_CONN slots and M > N threads, the number of connections
\* handed out and not yet released never exceeds N.
C2_AtMostN == Cardinality(HandedOut) <= MAX_CONN

\* C2 witness: all N connections are out and a further thread is blocked in
\* pthread_cond_wait.
C2_Witness ==
    /\ Cardinality(HandedOut) = MAX_CONN
    /\ \E t \in Threads : pc[t] = "wait"

\* C3: no connection is held by two borrowers at once.
C3_Exclusive ==
    \A t1, t2 \in Threads :
        (t1 # t2 /\ held[t1] # 0) => held[t1] # held[t2]

\* C3 witness: a connection has just been given back (its waiter is woken and
\* about to re-scan) while another thread still holds a connection.
C3_Witness ==
    /\ \E t \in Threads : pc[t] = "relock"
    /\ \E t \in Threads : held[t] # 0
    /\ FreeSlots(pool) # {}

\* C4 (as claimed): every thread that calls get_conn eventually returns with
\* a connection.
C4_NoStarvation ==
    \A t \in Threads : (t \in InGetConn) ~> (pc[t] = "use")

-----------------------------------------------------------------------------
(* Claims about the services *)

\* The cookies whose bytes hash to the stored value h.
TokensHashingTo(h) ==
    {Bin2Base64(b) : b \in {x \in UninitBuffers : TokenHashB64(x) = h}}

\* The token of session row i, as its holder presents it, is accepted for
\* some reference.  (All KEY_ENTROPY bytes of the buffer are decoded, so what
\* the buffer held before does not matter.)
TokenValidates(us, ss, t, i) ==
    \E tok \in TokensHashingTo(ss[i].session_token) :
        \E userId \in UserRefs :
            validate_session_token(us, ss, t, userId, tok,
                                   [k \in 1..KEY_ENTROPY |-> 0], TRUE)

\* C1: every service call that borrowed a connection has released it when it
\* returns, so with no request in flight every pool slot has busy = 0.
C1_NoLeak ==
    /\ (last # Idle /\ last.ret # "CRASH" /\ last.borrowed) => last.released
    /\ last = Idle => \A i \in DOMAIN pool : pool[i].busy = 0

\* The bytes the cookie decodes to, and nothing else.
Decoded(tok) == [i \in 1..Len(tok) |-> B64Value(tok[i])]

\* The session the claim describes: a row whose hash is that of the decoded
\* token, active, of a user the reference lets in.
ClaimedValid(userId, tok) ==
    /\ tok # NoToken
    /\ Base642Bin([i \in 1..KEY_ENTROPY |-> 0], tok).rc = 0
    /\ \E i \in DOMAIN sessions :
          SessionRowMatches(users, sessions, now, i, TokenHashB64(Decoded(tok)),
                            userId)

\* C5: validate_session_token answers true exactly when a session row holds
\* the hash of the decoded token, is unexpired and unrevoked, its owner is not
\* deleted and the reference lets the owner in (seen in users_list, which
\* leaves the tables alone).
C5_ValidateIff ==
    (last # Idle /\ last.op = "users_list" /\ last.clean)
        => (last.authed <=> ClaimedValid(last.ref, last.tok))

\* C6: after users_patch on user U returned OK, no session of U validates.
C6_PatchRevokesAll ==
    (last # Idle /\ last.op = "users_patch" /\ last.ret = "OK")
        => \A i \in DOMAIN sessions :
              sessions[i].user_id = last.uid
                  => ~TokenValidates(users, sessions, now, i)

\* C7: once users_delete of a user has returned OK, no token of a session
\* owned by that user validates, whatever reference it is presented with, in
\* every later state.
C7_DeletedNeverValidates ==
    \A u \in deletedOK : \A i \in DOMAIN sessions :
        sessions[i].user_id = u => ~TokenValidates(users, sessions, now, i)

\* users_delete has deleted a user who owns a session that is neither expired
\* nor revoked.
C7_Witness ==
    \E u \in deletedOK : \E i \in DOMAIN sessions :
        /\ sessions[i].user_id = u
        /\ sessions[i].expires_at > now
        /\ IsNullTime(sessions[i].revoked_at)

\* The reference names user u, by UUID or by username.
Names(userId, u) == users[u].uuid = userId \/ users[u].username = userId

\* The tokens of the sessions user u owns.
FormerTokens(u) ==
    UNION {TokensHashingTo(sessions[i].session_token) :
              i \in {j \in DOMAIN sessions : sessions[j].user_id = u}}

\* The cookie is the whole token of an active session of an admin.
AdminCaller(tok) ==
    /\ tok # NoToken
    /\ Len(tok) = KEY_ENTROPY
    /\ validate_admin_session_token(users, sessions, now, tok,
                                    [i \in 1..KEY_ENTROPY |-> 0], TRUE)

\* users_list has just answered a request for a deleted user u, no query
\* having failed.
ListedDeleted(u) ==
    /\ last # Idle
    /\ last.op = "users_list"
    /\ last.clean
    /\ u \in deletedOK
    /\ Names(last.ref, u)

C9_DeletedCannotLogin ==
    (/\ last # Idle
     /\ last.op = "sessions_create"
     /\ \E u \in DOMAIN users :
           Names(last.ref, u) /\ ~IsNullTime(users[u].deleted_at))
        => (last.ret # "OK" /\ last.token = NoToken)

\* Session row i is revoked or its expiry has passed.
Dead(ss, t, i) == ~IsNullTime(ss[i].revoked_at) \/ ss[i].expires_at <= t

\* C10: a session that is revoked or expired does not validate, and whatever
\* happens next it is still there and still revoked or expired.
C10_NoWayBack ==
    /\ [](\A i \in DOMAIN sessions :
            Dead(sessions, now, i) => ~TokenValidates(users, sessions, now, i))
    /\ [][\A i \in DOMAIN sessions :
            Dead(sessions, now, i) =>
                (i \in DOMAIN sessions' /\ Dead(sessions', now', i))]_vars

\* sessions_delete has just revoked a session that had already expired.
C10_Witness ==
    /\ last # Idle
    /\ last.op = "sessions_delete"
    /\ last.ret = "OK"
    /\ \E i \in DOMAIN sessions :
          /\ sessions[i].revoked_at = now
          /\ sessions[i].expires_at <= now

-----------------------------------------------------------------------------
(* weather.c: the station and API-key services *)

\* Rows the stations and api_keys tables may grow to.
MaxStations == 2
MaxKeys == 2

\* The text of a station's and of a key's uuid, by row number.
StationUuidTexts == <<"st-1", "st-2", "st-3">>

KeyUuidTexts == <<"key-1", "key-2", "key-3">>

\* An outcome of a call that may have written stations or api_keys.
WithTables(o, st, ks) == o @@ [stations |-> st, api_keys |-> ks]

\* get_user_session_token's SELECT: the session rows with this session_token,
\* joined to their user; neither revoked_at, expires_at nor deleted_at is
\* looked at.
SessionRowsOfHash(ss, hashB64) == {i \in DOMAIN ss : ss[i].session_token = hashB64}

\* get_user_session_token: the uuid of the user of the first row found;
\* residue is what recievedToken held on entry, dbok is false when the SELECT
\* fails.
get_user_session_token(us, ss, sessionToken, residue, dbok) ==
    IF sessionToken = NoToken THEN [ok |-> FALSE, userUUID |-> NULL]
    ELSE LET d == Base642Bin(residue, sessionToken)
             rows == SessionRowsOfHash(ss, TokenHashB64(d.bin))
         IN  IF d.rc # 0 \/ ~dbok \/ rows = {}
             THEN [ok |-> FALSE, userUUID |-> NULL]
             ELSE LET i == CHOOSE k \in rows : \A j \in rows : k <= j
                  IN  [ok |-> TRUE, userUUID |-> us[ss[i].user_id].uuid]

\* (mutation) the quota subquery counts nothing.
ActiveStationCount_Zero(st, u) == 0

\* stations_create's quota subquery: SELECT COUNT(*) FROM stations.stations s
\* WHERE s.user_id = u.user_id AND s.deleted_at IS NULL
ActiveStationCount(st, u) ==
    Cardinality({i \in DOMAIN st : st[i].user_id = u /\ IsNullTime(st[i].deleted_at)})

\* The users stations_create's INSERT ... SELECT yields a row for.
QuotaAdmits(us, st, userUUID) ==
    {u \in DOMAIN us :
        /\ us[u].uuid = userUUID
        /\ (us[u].max_stations = 0 - 1
               \/ ActiveStationCount(st, u) < us[u].max_stations)}

\* stations_create; the location plays no part in what follows and is left out
\* of the row.  uid is the owner of the inserted station, 0 if none.
stations_create(us, ss, st, ks, name, tok, residue, fault) ==
    IF tok = NoToken \/ name = NULL THEN WithTables(Early("AUTH_ERROR", us, ss), st, ks)
    ELSE IF ~validate_name(name) THEN WithTables(Early("INVALID_PARAMS", us, ss), st, ks)
    ELSE LET g == get_user_session_token(us, ss, tok, residue, fault # "validate")
         IN  IF ~g.ok THEN WithTables(Released("AUTH_ERROR", us, ss, FALSE, 0), st, ks)
             ELSE IF fault = "insert"
             THEN WithTables(Released("DB_ERROR", us, ss, TRUE, 0), st, ks)
             ELSE LET owners == QuotaAdmits(us, st, g.userUUID)
                  IN  IF owners = {}
                      THEN WithTables(Released("FORBIDDEN", us, ss, TRUE, 0), st, ks)
                      ELSE LET u == CHOOSE x \in owners : TRUE
                               st2 == Append(st, [user_id |-> u, name |-> name,
                                                  deleted_at |-> NoTime])
                           IN  IF fault = "json"
                               THEN WithTables(Released("JSON_ERROR", us, ss, TRUE, u), st2, ks)
                               ELSE WithTables(Released("OK", us, ss, TRUE, u), st2, ks)

\* The (user, station) pairs api_key_create's INSERT ... SELECT yields a row
\* for: FROM auth.users u JOIN stations.stations s ON s.user_id = u.user_id
\* WHERE (u.uuid::text = $1 OR u.username = $1) AND (s.uuid::text = $2 OR s.name = $2)
KeyTargets(us, st, userId, stationId) ==
    {i \in DOMAIN st :
        /\ st[i].user_id \in MatchUser(us, userId)
        /\ (StationUuidTexts[i] = stationId \/ st[i].name = stationId)}

\* The rows api_key_create inserts, in station order.
RECURSIVE InsertKeys(_, _, _, _, _, _)
InsertKeys(ks, st, targets, name, hashB64, keyType) ==
    IF targets = {} THEN ks
    ELSE LET i == CHOOSE k \in targets : \A j \in targets : k <= j
         IN  InsertKeys(Append(ks, [user_id |-> st[i].user_id, name |-> name,
                                    api_key |-> hashB64, api_key_type |-> keyType,
                                    station_id |-> i, expires_at |-> NoTime,
                                    revoked_at |-> NoTime]),
                        st, targets \ {i}, name, hashB64, keyType)

\* api_key_create
api_key_create(us, ss, st, ks, t, name, keyType, stationId, userId, tok, residue, rnd, fault) ==
    IF tok = NoToken THEN WithTables(Early("AUTH_ERROR", us, ss), st, ks)
    ELSE IF ~validate_name(name) \/ keyType = NULL \/ stationId = NULL
    THEN WithTables(Early("INVALID_PARAMS", us, ss), st, ks)
    ELSE IF ~validate_session_token(us, ss, t, userId, tok, residue, fault # "validate")
    THEN WithTables(Unreleased("AUTH_ERROR", us, ss, FALSE), st, ks)
    ELSE IF fault = "insert" THEN WithTables(Released("DB_ERROR", us, ss, TRUE, 0), st, ks)
    ELSE LET g == generateSessionToken(rnd)
             targets == KeyTargets(us, st, userId, stationId)
             ks2 == InsertKeys(ks, st, targets, name, g.hashB64, keyType)
         IN  IF targets = {} THEN WithTables(Released("NOT_FOUND", us, ss, TRUE, 0), st, ks)
             ELSE IF fault = "json"
             THEN WithTables(Released("JSON_ERROR", us, ss, TRUE, 0), st, ks2)
             ELSE WithTables(Outcome("OK", us, ss, TRUE, TRUE, TRUE, 0, g.tokenB64), st, ks2)

\* api_key_delete's UPDATE: SET revoked_at = now() WHERE (uuid::text = $1 OR name = $1)
RevokeKeys(ks, t, keyId) ==
    [i \in DOMAIN ks |->
        IF KeyUuidTexts[i] = keyId \/ ks[i].name = keyId
        THEN [ks[i] EXCEPT !.revoked_at = t] ELSE ks[i]]

\* api_key_delete
api_key_delete(us, ss, st, ks, t, userId, keyId, tok, residue, fault) ==
    IF tok = NoToken THEN WithTables(Early("AUTH_ERROR", us, ss), st, ks)
    ELSE IF userId = NULL \/ keyId = NULL
    THEN WithTables(Early("INVALID_PARAMS", us, ss), st, ks)
    ELSE IF ~validate_session_token(us, ss, t, userId, tok, residue, fault # "validate")
    THEN WithTables(Released("AUTH_ERROR", us, ss, FALSE, 0), st, ks)
    ELSE IF fault = "update" THEN WithTables(Released("DB_ERROR", us, ss, TRUE, 0), st, ks)
    ELSE WithTables(Released("OK", us, ss, TRUE, 0), st, RevokeKeys(ks, t, keyId))

-----------------------------------------------------------------------------
(* The station and key requests explored *)

\* Alice, as users_create("alice", "a@x.io", "pw1") leaves her.
Alice == NewUserRow(2, "alice", "a@x.io", PwHashStr("pw1"))

\* The cookies a client holds: none, or the text of a minted token.
MintedCookies == {Bin2Base64(b) : b \in UninitBuffers}

\* randombytes_buf for an API key: a key whose hash is in no stored row.
FreshKeys ==
    {b \in UninitBuffers :
        \A i \in DOMAIN api_keys : api_keys[i].api_key # TokenHashB64(b)}

\* The request a call was made with: the operation, the user reference, the
\* cookie, the operation's own argument (password, station name, session or
\* key id) and whether every query succeeded.
Call(op, ref, tok, arg, fault) ==
    [op |-> op, ref |-> ref, tok |-> tok, arg |-> arg, clean |-> fault = "none"]

\* As Finish, for a call that may write any of the four tables; last keeps the
\* whole request.
Serve(call, outcome) ==
    /\ \E o \in {outcome} :
        /\ o.borrowed => FirstFree(pool) # 0
        /\ Len(o.sessions) <= MaxSessions
        /\ Len(o.stations) <= MaxStations
        /\ Len(o.api_keys) <= MaxKeys
        /\ users' = o.users
        /\ sessions' = o.sessions
        /\ stations' = o.stations
        /\ api_keys' = o.api_keys
        /\ pool' = IF ~o.borrowed THEN pool
                   ELSE LET i == FirstFree(pool)
                        IN  IF o.released
                            THEN MarkFree(MarkBusy(pool, i), pool[i].conn)
                            ELSE MarkBusy(pool, i)
        /\ last' = call @@ [ret |-> o.ret, authed |-> o.authed, uid |-> o.uid,
                            token |-> o.token, borrowed |-> o.borrowed,
                            released |-> o.released]
    /\ UNCHANGED <<now, poolMutex, poolCond, pc, held, deletedOK, wq>>

\* POST /sessions for one of refs with one of passwords.
Login(refs, passwords) ==
    /\ last = Idle
    /\ \E userId \in refs, password \in passwords :
           IF validate_password(users, userId, password, TRUE)
           THEN \E rnd \in FreshTokens, fault \in {"none", "select"} :
                   Serve(Call("sessions_create", userId, NoToken, password, fault),
                         WithTables(sessions_create(users, sessions, now, userId, password,
                                                    DEFAULT_SESSION_AGE, rnd, fault),
                                    stations, api_keys))
           ELSE \E rnd \in {[i \in 1..KEY_ENTROPY |-> 0]} :
                   Serve(Call("sessions_create", userId, NoToken, password, "none"),
                         WithTables(sessions_create(users, sessions, now, userId, password,
                                                    DEFAULT_SESSION_AGE, rnd, "none"),
                                    stations, api_keys))

\* DELETE /users/{id}/sessions/{uuid} for one of refs.
Logout(refs) ==
    /\ last = Idle
    /\ \E userId \in refs, tok \in MintedCookies, sessionUUID \in 1..MaxSessions :
           \E residue \in ResiduesFor(tok) :
               Serve(Call("sessions_delete", userId, tok, sessionUUID, "none"),
                     WithTables(sessions_delete(users, sessions, now, userId, sessionUUID,
                                                tok, residue, "none"),
                                stations, api_keys))

\* DELETE /users/{id} for one of refs.
Leave(refs) ==
    /\ last = Idle
    /\ \E userId \in refs, tok \in MintedCookies :
           \E residue \in ResiduesFor(tok) :
               Serve(Call("users_delete", userId, tok, NULL, "none"),
                     WithTables(users_delete(users, sessions, now, userId, tok, residue,
                                             "none"),
                                stations, api_keys))

\* POST /stations
StationsCreate(names, faults) ==
    /\ last = Idle
    /\ \E name \in names, tok \in {NoToken} \cup MintedCookies :
           \E residue \in ResiduesFor(tok) :
               \E fault \in FaultsOf(get_user_session_token(users, sessions, tok,
                                                             residue, TRUE).ok
                                         /\ validate_name(name), faults) :
                   Serve(Call("stations_create", NULL, tok, name, fault),
                         stations_create(users, sessions, stations, api_keys, name, tok,
                                         residue, fault))

\* A station is soft-deleted.
StationsSoftDelete ==
    /\ last = Idle
    /\ \E i \in DOMAIN stations :
           /\ IsNullTime(stations[i].deleted_at)
           /\ stations' = [stations EXCEPT ![i].deleted_at = now]
    /\ UNCHANGED <<pool, poolMutex, poolCond, pc, held, users, sessions, now, last,
                   deletedOK, api_keys, wq>>

\* POST /users/{id}/api-keys
ApiKeyCreate(refs) ==
    /\ last = Idle
    /\ \E userId \in refs, tok \in MintedCookies, stationId \in {"garden"} :
           \E residue \in ResiduesFor(tok), rnd \in FreshKeys :
               \E fault \in FaultsOf(Passes(userId, tok, residue), {"json"}) :
                   Serve(Call("api_key_create", userId, tok, stationId, fault),
                         api_key_create(users, sessions, stations, api_keys, now, "upload",
                                        "weather_upload", stationId, userId, tok, residue,
                                        rnd, fault))

\* Revocation of an API key of one of refs, by uuid or by name.
ApiKeyDelete(refs) ==
    /\ last = Idle
    /\ \E userId \in refs, tok \in MintedCookies,
          keyId \in {"upload"} \cup {KeyUuidTexts[i] : i \in 1..MaxKeys} :
           \E residue \in ResiduesFor(tok) :
               Serve(Call("api_key_delete", userId, tok, keyId, "none"),
                     api_key_delete(users, sessions, stations, api_keys, now, userId,
                                    keyId, tok, residue, "none"))

\* Station quotas an administrator's users_patch has left Alice with.
AliceQuotas == {0, 1}

\* Root and Alice are registered; Alice's quota is one of AliceQuotas.
StationInit ==
    /\ \E k \in AliceQuotas : users = InitUsers \o <<[Alice EXCEPT !.max_stations = k]>>
    /\ sessions = <<>>
    /\ now = 0
    /\ last = Idle
    /\ deletedOK = {}
    /\ stations = <<>>
    /\ api_keys = <<>>
    /\ wq = NoQuery
    /\ pool = InitPool
    /\ poolMutex = 0
    /\ poolCond = {}
    /\ pc = [t \in Threads |-> "idle"]
    /\ held = [t \in Threads |-> 0]

StationNext ==
    \/ Login({"root", "alice"}, {NULL, "pw1", "pw2"})
    \/ Logout({"alice"})
    \/ Leave({"alice"})
    \/ StationsCreate({NULL, "x", "garden"}, {"insert", "json"})
    \/ StationsSoftDelete
    \/ Respond
    \/ Tick

StationSpec == StationInit /\ [][StationNext]_vars

\* Root and Alice are registered, neither has logged in yet.
KeyInit ==
    /\ users = InitUsers \o <<Alice>>
    /\ sessions = <<>>
    /\ now = 0
    /\ last = Idle
    /\ deletedOK = {}
    /\ stations = <<>>
    /\ api_keys = <<>>
    /\ wq = NoQuery
    /\ pool = InitPool
    /\ poolMutex = 0
    /\ poolCond = {}
    /\ pc = [t \in Threads |-> "idle"]
    /\ held = [t \in Threads |-> 0]

KeyNext ==
    \/ Login({"root", "alice"}, {"pw1"})
    \/ Logout({"root", "alice"})
    \/ StationsCreate({"garden"}, {})
    \/ ApiKeyCreate({"root", "alice"})
    \/ ApiKeyDelete({"root", "alice"})
    \/ Respond

KeySpec == KeyInit /\ [][KeyNext]_vars

\* Logins, deletions of users, sessions and keys that exist or do not, and
\* the stations and keys that give them something to delete.
DeleteNext ==
    \/ Login({"root", "alice"}, {"pw1"})
    \/ Logout({"root", "bob"})
    \/ Leave({"alice", "bob"})
    \/ StationsCreate({"garden"}, {})
    \/ ApiKeyCreate({"root"})
    \/ ApiKeyDelete({"root"})
    \/ Respond

DeleteSpec == KeyInit /\ [][DeleteNext]_vars

-----------------------------------------------------------------------------
(* The account changes explored *)

\* Bodies of PATCH /users/{id} that ask for a quota, for the admin flag, for
\* a password change (with the right old password, a wrong one, or none), or
\* for any mix of them.
AccountPatches ==
    [maxStations : {<<>>, <<0>>}, isAdmin : {<<>>, <<TRUE>>},
     pass : {<<NULL, NULL>>, <<"pw1", "pw2">>, <<"pw2", "pw2">>, <<NULL, "pw2">>}]

\* PATCH /users/{id} for one of refs.
Patch(refs) ==
    /\ last = Idle
    /\ \E userId \in refs, tok \in MintedCookies, req \in AccountPatches :
           \E residue \in ResiduesFor(tok), residue2 \in ResiduesFor(tok) :
               \E fault \in FaultsOf(Passes(userId, tok, residue)
                                         /\ req.pass = <<"pw1", "pw2">>,
                                     {"pwquery", "admin"}) :
                   Serve(Call("users_patch", userId, tok, req, fault),
                         WithTables(users_patch(users, sessions, now, userId, NULL, NULL,
                                                req.maxStations, req.isAdmin, req.pass[1],
                                                req.pass[2], tok, residue, residue2, fault),
                                    stations, api_keys))

PatchNext ==
    \/ Login({"root", "alice"}, {"pw1", "pw2"})
    \/ Patch({"root", "alice"})
    \/ Respond

\* Root and Alice are registered, neither has logged in yet.
PatchSpec == KeyInit /\ [][PatchNext]_vars

-----------------------------------------------------------------------------
(* utils.c and weather.c: the weather-data queries *)

\* dataFlags_t
DataFlags ==
    [TEMP |-> 2^0, HUMIDITY |-> 2^1, PRESSURE |-> 2^2, LUX |-> 2^3, UVI |-> 2^4,
     WIND_SPEED |-> 2^5, WIND_DIRECTION |-> 2^6, GUST_SPEED |-> 2^7,
     GUST_DIRECTION |-> 2^8, RAINFALL |-> 2^9, SOLAR_IRRADIANCE |-> 2^10]

\* summaryFalgs_t
SummaryFlags ==
    [AVG_TEMPERATURE |-> 2^0, MAX_TEMPERATURE |-> 2^1, MIN_TEMPERATURE |-> 2^2,
     STDDEV_TEMPERATURE |-> 2^3, AVG_HUMIDITY |-> 2^4, MAX_HUMIDITY |-> 2^5,
     MIN_HUMIDITY |-> 2^6, STDDEV_HUMIDITY |-> 2^7, AVG_PRESSURE |-> 2^8,
     MAX_PRESSURE |-> 2^9, MIN_PRESSURE |-> 2^10, SUM_RAINFALL |-> 2^11,
     STDDEV_RAINFALL |-> 2^12, AVG_WIND_SPEED |-> 2^13, AVG_WIND_DIRECTION |-> 2^14,
     STDDEV_WIND_SPEED |-> 2^15, WIND_RUN |-> 2^16, MAX_GUST_SPEED |-> 2^17,
     MAX_GUST_DIRECTION |-> 2^18, AVG_LUX |-> 2^19, MAX_LUX |-> 2^20,
     AVG_UVI |-> 2^21, MAX_UVI |-> 2^22, AVG_SOLAR_IRRADIANCE |-> 2^23]

\* granularity_t, without the GRANULARITY_ prefix.
Granularities == {"DATA", "HOUR", "DAY", "MONTH", "YEAR"}

\* string_to_granularity: anything unknown, NULL included, is GRANULARITY_HOUR.
string_to_granularity(granularityStr) ==
    CASE granularityStr = "raw" -> "DATA"
      [] granularityStr = "hour" -> "HOUR"
      [] granularityStr = "day" -> "DAY"
      [] granularityStr = "month" -> "MONTH"
      [] granularityStr = "year" -> "YEAR"
      [] OTHER -> "HOUR"

\* string_to_field: the flag each field name of the API stands for, the raw
\* readings first, the summaries second.
DataFieldFlags ==
    [temperature |-> DataFlags.TEMP, humidity |-> DataFlags.HUMIDITY,
     pressure |-> DataFlags.PRESSURE, lux |-> DataFlags.LUX, uvi |-> DataFlags.UVI,
     wind_speed |-> DataFlags.WIND_SPEED, wind_direction |-> DataFlags.WIND_DIRECTION,
     gust_speed |-> DataFlags.GUST_SPEED, gust_direction |-> DataFlags.GUST_DIRECTION,
     rainfall |-> DataFlags.RAINFALL, solar_irradiance |-> DataFlags.SOLAR_IRRADIANCE]

SummaryFieldFlags ==
    [avg_temperature |-> SummaryFlags.AVG_TEMPERATURE,
     max_temperature |-> SummaryFlags.MAX_TEMPERATURE,
     min_temperature |-> SummaryFlags.MIN_TEMPERATURE,
     stddev_temperature |-> SummaryFlags.STDDEV_TEMPERATURE,
     avg_humidity |-> SummaryFlags.AVG_HUMIDITY,
     max_humidity |-> SummaryFlags.MAX_HUMIDITY,
     min_humidity |-> SummaryFlags.MIN_HUMIDITY,
     stddev_humidity |-> SummaryFlags.STDDEV_HUMIDITY,
     avg_pressure |-> SummaryFlags.AVG_PRESSURE,
     max_pressure |-> SummaryFlags.MAX_PRESSURE,
     min_pressure |-> SummaryFlags.MIN_PRESSURE,
     sum_rainfall |-> SummaryFlags.SUM_RAINFALL,
     stddev_rainfall |-> SummaryFlags.STDDEV_RAINFALL,
     avg_wind_speed |-> SummaryFlags.AVG_WIND_SPEED,
     avg_wind_direction |-> SummaryFlags.AVG_WIND_DIRECTION,
     stddev_wind_speed |-> SummaryFlags.STDDEV_WIND_SPEED,
     wind_run |-> SummaryFlags.WIND_RUN,
     max_gust_speed |-> SummaryFlags.MAX_GUST_SPEED,
     max_gust_direction |-> SummaryFlags.MAX_GUST_DIRECTION,
     avg_lux |-> SummaryFlags.AVG_LUX, max_lux |-> SummaryFlags.MAX_LUX,
     avg_uvi |-> SummaryFlags.AVG_UVI, max_uvi |-> SummaryFlags.MAX_UVI,
     avg_solar_irradiance |-> SummaryFlags.AVG_SOLAR_IRRADIANCE]

\* fields & FLAG, for a flag of one bit and an int in two's complement.
HasFlag(fields, flag) == (fields \div flag) % 2 = 1

\* A run of APPEND_QUERY_FIELD(flag, " column,") calls: the output columns
\* they add to the select list, in the order of the calls.
AppendQueryFields(fields, calls) ==
    LET taken == SelectSeq(calls, LAMBDA c : HasFlag(fields, c[1]))
    IN  [i \in 1..Len(taken) |-> taken[i][2]]

\* build_static_query, GRANULARITY_DATA block.
StaticDataCalls ==
    << <<DataFlags.TEMP, "temperature">>, <<DataFlags.HUMIDITY, "humidity">>,
       <<DataFlags.PRESSURE, "pressure">>, <<DataFlags.LUX, "lux">>,
       <<DataFlags.UVI, "uvi">>, <<DataFlags.WIND_SPEED, "wind_speed">>,
       <<DataFlags.WIND_DIRECTION, "wind_direction">>,
       <<DataFlags.GUST_SPEED, "gust_speed">>,
       <<DataFlags.GUST_DIRECTION, "gust_direction">>,
       <<DataFlags.RAINFALL, "rainfall">>,
       <<DataFlags.SOLAR_IRRADIANCE, "solar_irradiance">> >>

\* build_static_query, granularity != GRANULARITY_DATA block.
StaticSummaryCalls ==
    << <<SummaryFlags.AVG_TEMPERATURE, "avg_temperature">>,
       <<SummaryFlags.AVG_HUMIDITY, "avg_humidity">>,
       <<SummaryFlags.AVG_PRESSURE, "avg_pressure">>,
       <<SummaryFlags.SUM_RAINFALL, "sum_rainfall">>,
       <<SummaryFlags.STDDEV_RAINFALL, "stddev_rainfall">>,
       <<SummaryFlags.AVG_WIND_SPEED, "avg_wind_speed">>,
       <<SummaryFlags.AVG_WIND_DIRECTION, "avg_wind_direction">>,
       <<SummaryFlags.STDDEV_WIND_SPEED, "stddev_wind_speed">>,
       <<SummaryFlags.MAX_GUST_SPEED, "max_gust_speed">>,
       <<SummaryFlags.MAX_GUST_DIRECTION, "max_gust_direction">>,
       <<SummaryFlags.AVG_LUX, "avg_lux">>, <<SummaryFlags.AVG_UVI, "avg_uvi">>,
       <<SummaryFlags.AVG_SOLAR_IRRADIANCE, "avg_solar_irradiance">> >>

\* build_static_query, GRANULARITY_DAY block.
StaticDayCalls == << <<SummaryFlags.WIND_RUN, "wind_run">> >>

\* build_static_query, day / month / year block.
StaticLongCalls ==
    << <<SummaryFlags.MAX_TEMPERATURE, "max_temperature">>,
       <<SummaryFlags.MIN_TEMPERATURE, "min_temperature">>,
       <<SummaryFlags.STDDEV_TEMPERATURE, "stddev_temperature">>,
       <<SummaryFlags.MAX_HUMIDITY, "max_humidity">>,
       <<SummaryFlags.MIN_HUMIDITY, "min_humidity">>,
       <<SummaryFlags.STDDEV_HUMIDITY, "stddev_humidity">>,
       <<SummaryFlags.MAX_PRESSURE, "max_pressure">>,
       <<SummaryFlags.MIN_PRESSURE, "min_pressure">>,
       <<SummaryFlags.MAX_LUX, "max_lux">>, <<SummaryFlags.MAX_UVI, "max_uvi">>,
       <<SummaryFlags.AVG_SOLAR_IRRADIANCE, "avg_solar_irradiance">> >>

\* build_static_query's queryEnd: the table the rows come from.
StaticTable(granularity) ==
    CASE granularity = "DATA" -> "weather.weather_data"
      [] granularity = "HOUR" -> "weather.weather_hourly_summary"
      [] granularity = "DAY" -> "weather.weather_daily_summary"
      [] granularity = "MONTH" -> "weather.weather_monthly_summary"
      [] granularity = "YEAR" -> "weather.weather_yearly_summary"

\* The text the APPEND_QUERY_FIELD calls taken write, as lexemes: each
\* fragment is " column," (for the dynamic query " expr AS column,").
RECURSIVE Fragments(_)
Fragments(appended) ==
    IF appended = <<>> THEN <<>>
    ELSE <<" ", Head(appended), ",">> \o Fragments(Tail(appended))

\* "Delete the last ,": if (p > query && *(p - 1) == ',') p--;
DeleteLastComma(text) ==
    IF text # <<>> /\ text[Len(text)] = "," THEN SubSeq(text, 1, Len(text) - 1) ELSE text

\* Is the last lexeme of the select list, blanks aside, a comma?
CommaBeforeFrom(text) ==
    LET inked == {i \in 1..Len(text) : text[i] \notin {" ", "\n"}}
    IN  /\ inked # {}
        /\ text[CHOOSE i \in inked : \A j \in inked : j <= i] = ","

\* A composed query: the output columns of its select list in order, whether
\* a comma is left dangling before FROM (baseTail is how the base text ends),
\* the table read, and the highest $n it refers to.  The whole text stays
\* well below GENERIC_WEATHER_QUERY_SIZE, so append_to_buffer does not fail.
Query(columns, baseTail, appended, table, placeholders) ==
    [columns |-> columns \o appended,
     dangling |-> CommaBeforeFrom(DeleteLastComma(baseTail \o Fragments(appended))),
     from |-> table, placeholders |-> placeholders]

\* build_static_query
build_static_query(fields, granularity) ==
    LET data == IF granularity = "DATA"
                THEN AppendQueryFields(fields, StaticDataCalls) ELSE <<>>
        summary == IF granularity # "DATA"
                   THEN AppendQueryFields(fields, StaticSummaryCalls) ELSE <<>>
        day == IF granularity = "DAY"
               THEN AppendQueryFields(fields, StaticDayCalls) ELSE <<>>
        long == IF granularity \in {"DAY", "MONTH", "YEAR"}
                THEN AppendQueryFields(fields, StaticLongCalls) ELSE <<>>
    IN  Query(<<"period_start", "period_end">>, <<"period_end", ",", "\n">>,
              data \o summary \o day \o long, StaticTable(granularity), 3)

\* build_generic_weather_query's APPEND_QUERY_FIELD calls (the AS names).
GenericCalls ==
    << <<SummaryFlags.AVG_TEMPERATURE, "avg_temperature">>,
       <<SummaryFlags.MAX_TEMPERATURE, "max_temperature">>,
       <<SummaryFlags.MIN_TEMPERATURE, "min_temperature">>,
       <<SummaryFlags.STDDEV_TEMPERATURE, "stddev_temperature">>,
       <<SummaryFlags.AVG_HUMIDITY, "avg_humidity">>,
       <<SummaryFlags.MAX_HUMIDITY, "max_humidity">>,
       <<SummaryFlags.MIN_HUMIDITY, "min_humidity">>,
       <<SummaryFlags.STDDEV_HUMIDITY, "stddev_humidity">>,
       <<SummaryFlags.AVG_PRESSURE, "avg_pressure">>,
       <<SummaryFlags.MAX_PRESSURE, "max_pressure">>,
       <<SummaryFlags.MIN_PRESSURE, "min_pressure">>,
       <<SummaryFlags.SUM_RAINFALL, "sum_rainfall">>,
       <<SummaryFlags.STDDEV_RAINFALL, "stddev_rainfall">>,
       <<SummaryFlags.AVG_WIND_SPEED, "avg_wind_speed">>,
       <<SummaryFlags.AVG_WIND_DIRECTION, "avg_wind_direction">>,
       <<SummaryFlags.STDDEV_WIND_SPEED, "stddev_wind_speed">>,
       <<SummaryFlags.WIND_RUN, "wind_run">>,
       <<SummaryFlags.MAX_GUST_SPEED, "max_gust_speed">>,
       <<SummaryFlags.MAX_GUST_DIRECTION, "max_gust_direction">>,
       <<SummaryFlags.MAX_LUX, "max_lux">>, <<SummaryFlags.AVG_LUX, "avg_lux">>,
       <<SummaryFlags.MAX_UVI, "max_uvi">>, <<SummaryFlags.AVG_UVI, "avg_uvi">>,
       <<SummaryFlags.AVG_SOLAR_IRRADIANCE, "avg_solar_irradiance">> >>

\* build_generic_weather_query
build_generic_weather_query(fields) ==
    Query(<<"period_start", "period_end", "granularity">>, <<"d.granularity", ",", " ">>,
          AppendQueryFields(fields, GenericCalls), "weather.weather_data", 4)

\* #define DEFAULT_TIMEZONE "Europe/Madrid"
DEFAULT_TIMEZONE == "Europe/Madrid"

\* The days a request's range may start and end on; summer time starts in
\* Madrid and Paris between day 1 and day 2.
Days == 1..2

\* A timestamp argument that is a null pointer.
NoDay == 0

\* ICU's UCAL_ZONE_OFFSET + UCAL_DST_OFFSET of a zone on a day, in minutes.
ZoneOffset(tz, day) ==
    CASE tz \in {"Europe/Madrid", "Europe/Paris"} -> IF day = 1 THEN 60 ELSE 120
      [] tz = "Africa/Lagos" -> 60
      [] tz = "America/New_York" -> 0 - 240

\* (mutation) the offsets are compared at startStr only.
same_timezone_offset_during_range_StartOnly(startStr, endStr, tz1, tz2) ==
    IF startStr = NoDay \/ endStr = NoDay \/ tz1 = NULL \/ tz2 = NULL THEN FALSE
    ELSE IF startStr > endStr THEN TRUE
    ELSE ZoneOffset(tz1, startStr) = ZoneOffset(tz2, startStr)

\* same_timezone_offset_during_range: the offsets are compared at startStr
\* and then every 24 hours up to endStr.
same_timezone_offset_during_range(startStr, endStr, tz1, tz2) ==
    IF startStr = NoDay \/ endStr = NoDay \/ tz1 = NULL \/ tz2 = NULL THEN FALSE
    ELSE IF tz1 = tz2 THEN TRUE
    ELSE \A day \in startStr..endStr : ZoneOffset(tz1, day) = ZoneOffset(tz2, day)

\* (mutation) the query is always sent with three parameters.
ParamCount_Three(sameTimezone, granularity) == 3

\* weather_data_list: nParams of PQexecParams.
ParamCount(sameTimezone, granularity) ==
    IF ~sameTimezone /\ granularity # "DATA" THEN 4 ELSE 3

\* weather_data_list: which composer builds the query.
ComposedQuery(sameTimezone, granularity, fields) ==
    IF ~sameTimezone /\ granularity # "DATA"
    THEN [path |-> "generic", query |-> build_generic_weather_query(fields)]
    ELSE [path |-> "static", query |-> build_static_query(fields, granularity)]

\* weather_data_list; rows is the number of rows the query finds.  A query
\* with a dangling comma, or one sent with fewer parameters than it refers
\* to, is refused by the server.
weather_data_list(fields, granularityStr, timezone, startTime, endTime, rows) ==
    IF timezone = NULL \/ startTime = NoDay \/ endTime = NoDay \/ granularityStr = NULL
    THEN [ret |-> "INVALID_PARAMS", path |-> "none"]
    ELSE IF fields < 0 THEN [ret |-> "INVALID_PARAMS", path |-> "none"]
    ELSE LET granularity == string_to_granularity(granularityStr)
             sameTimezone == same_timezone_offset_during_range(startTime, endTime,
                                                               timezone, DEFAULT_TIMEZONE)
             c == ComposedQuery(sameTimezone, granularity, fields)
             nParams == ParamCount(sameTimezone, granularity)
         IN  [ret |-> IF c.query.dangling \/ c.query.placeholders > nParams
                      THEN "DB_ERROR"
                      ELSE IF rows = 0 THEN "FORBIDDEN" ELSE "OK",
              path |-> c.path, query |-> c.query, nParams |-> nParams,
              granularity |-> granularity, sameTimezone |-> sameTimezone]

-----------------------------------------------------------------------------
(* The weather-data requests explored *)

\* Explored bitmasks have at most MaxBitsSet of the 24 flag bits set, or all
\* of them, or are negative.
MaxBitsSet == 2

FlagBits == 0..23

FieldMasks ==
    {0 - 1, 2^24 - 1}
        \cup {2^i : i \in FlagBits}
        \cup (IF MaxBitsSet >= 2 THEN {2^i + 2^j : i, j \in FlagBits} ELSE {})
        \cup (IF MaxBitsSet >= 3
              THEN {2^i + 2^j + 2^k : i \in 0..2, j \in 3..5, k \in 22..23} ELSE {})
        \cup {0}

\* Query strings of GET /stations/{ref}/weather-data.
WeatherRequests ==
    [fields : FieldMasks,
     granularityStr : {NULL, "raw", "hour", "day", "month", "year", "week"},
     timezone : {NULL, "Europe/Madrid", "Europe/Paris", "Africa/Lagos",
                 "America/New_York"},
     startTime : {NoDay} \cup Days, endTime : Days]

QueryInit ==
    /\ wq \in [stage : {"request"}, req : WeatherRequests]
    /\ users = InitUsers
    /\ sessions = <<>>
    /\ now = 0
    /\ last = Idle
    /\ deletedOK = {}
    /\ stations = <<>>
    /\ api_keys = <<>>
    /\ pool = InitPool
    /\ poolMutex = 0
    /\ poolCond = {}
    /\ pc = [t \in Threads |-> "idle"]
    /\ held = [t \in Threads |-> 0]

\* build_static_query(fields, granularity) on the request's bitmask.
BuildStatic ==
    /\ wq.stage = "request"
    /\ wq' = [stage |-> "static", req |-> wq.req,
              out |-> build_static_query(wq.req.fields,
                                         string_to_granularity(wq.req.granularityStr))]
    /\ UNCHANGED <<pool, poolMutex, poolCond, pc, held, users, sessions, now, last,
                   deletedOK, stations, api_keys>>

\* build_generic_weather_query(fields) on the request's bitmask.
BuildGeneric ==
    /\ wq.stage = "request"
    /\ wq' = [stage |-> "generic", req |-> wq.req,
              out |-> build_generic_weather_query(wq.req.fields)]
    /\ UNCHANGED <<pool, poolMutex, poolCond, pc, held, users, sessions, now, last,
                   deletedOK, stations, api_keys>>

\* weather_data_list on the request; it borrows pool slot FirstFree and gives
\* it back on every path.
WeatherDataList ==
    /\ wq.stage = "request"
    /\ FirstFree(pool) # 0
    /\ \E rows \in {0, 1} :
           wq' = [stage |-> "listed", req |-> wq.req,
                  out |-> weather_data_list(wq.req.fields, wq.req.granularityStr,
                                            wq.req.timezone, wq.req.startTime,
                                            wq.req.endTime, rows)]
    /\ pool' = MarkFree(MarkBusy(pool, FirstFree(pool)), pool[FirstFree(pool)].conn)
    /\ UNCHANGED <<poolMutex, poolCond, pc, held, users, sessions, now, last,
                   deletedOK, stations, api_keys>>

QueryNext ==
    \/ BuildStatic
    \/ BuildGeneric
    \/ WeatherDataList

QuerySpec == QueryInit /\ [][QueryNext]_vars

-----------------------------------------------------------------------------
(* weather.c: the time zone of a weather-data request *)

\* A statement, and a time-zone string, is a sequence of lexemes: a run of
\* ordinary characters is one lexeme, the single quote and the operator ||
\* are lexemes of their own.
SqlQuote == "'"

\* snprintf(quoteQuery, ..., "SELECT quote_literal('%s');", timezone)
QuoteQuery(timezone) == <<"SELECT quote_literal(", SqlQuote>> \o timezone \o <<SqlQuote, ");">>

\* snprintf(queryTz, ..., "SET TIME ZONE %s;", escapedTz)
QueryTz(escapedTz) == <<"SET TIME ZONE ">> \o escapedTz \o <<";">>

\* The server's lexer inside a string constant that was opened before s[i]:
\* two quotes in a row stand for one quote, a single one closes the constant.
RECURSIVE LexLiteral(_, _, _)
LexLiteral(s, i, acc) ==
    IF i > Len(s) THEN [closed |-> FALSE, value |-> acc, next |-> i]
    ELSE IF s[i] # SqlQuote THEN LexLiteral(s, i + 1, Append(acc, s[i]))
    ELSE IF i < Len(s) /\ s[i + 1] = SqlQuote
         THEN LexLiteral(s, i + 2, Append(acc, SqlQuote))
         ELSE [closed |-> TRUE, value |-> acc, next |-> i + 1]

\* The server's parser on the argument of quote_literal( starting at s[i]:
\* string constants joined by ||.
RECURSIVE ParseConcat(_, _, _)
ParseConcat(s, i, acc) ==
    IF i > Len(s) \/ s[i] # SqlQuote THEN [ok |-> FALSE, value |-> acc, next |-> i]
    ELSE LET l == LexLiteral(s, i + 1, <<>>)
         IN  IF ~l.closed THEN [ok |-> FALSE, value |-> acc, next |-> l.next]
             ELSE IF l.next <= Len(s) /\ s[l.next] = "||"
                  THEN ParseConcat(s, l.next + 1, acc \o l.value)
                  ELSE [ok |-> TRUE, value |-> acc \o l.value, next |-> l.next]

\* quote_literal(text): the text between quotes, each quote in it doubled.
RECURSIVE DoubleQuotes(_)
DoubleQuotes(v) ==
    IF v = <<>> THEN <<>>
    ELSE (IF Head(v) = SqlQuote THEN <<SqlQuote, SqlQuote>> ELSE <<Head(v)>>)
             \o DoubleQuotes(Tail(v))

quote_literal(v) == <<SqlQuote>> \o DoubleQuotes(v) \o <<SqlQuote>>

\* PQexec(conn, quoteQuery): PGRES_TUPLES_OK with the quoted text when the
\* statement parses, a syntax error otherwise.
ExecQuote(stmt) ==
    LET p == ParseConcat(stmt, 2, <<>>)
    IN  IF p.ok /\ SubSeq(stmt, p.next, Len(stmt)) = <<");">>
        THEN [ok |-> TRUE, value |-> quote_literal(p.value)]
        ELSE [ok |-> FALSE, value |-> <<>>]

\* The zone names the server knows.
KnownZones == {<<"UTC">>, <<"Europe/Paris">>, <<"Europe/Madrid">>}

\* PQexec(conn, queryTz): PGRES_COMMAND_OK when the statement is SET TIME
\* ZONE with one string constant naming a known zone.
ExecSetZone(stmt) ==
    IF Len(stmt) < 2 \/ stmt[2] # SqlQuote THEN [ok |-> FALSE, zone |-> <<>>]
    ELSE LET l == LexLiteral(stmt, 3, <<>>)
         IN  IF l.closed /\ SubSeq(stmt, l.next, Len(stmt)) = <<";">>
                         /\ l.value \in KnownZones
             THEN [ok |-> TRUE, zone |-> l.value]
             ELSE [ok |-> FALSE, zone |-> <<>>]

\* The TimeZone setting of a connection PQconnectdb has just opened.
ServerZone == <<"Europe/Madrid">>

\* (mutation) the data query is issued whether SET TIME ZONE succeeded or not.
AfterSetZone_Ignored(ok) == "zoned"

\* weather_data_list after PQexec(conn, queryTz): go on, or release and
\* return API_DB_ERROR.
AfterSetZone(ok) == IF ok THEN "zoned" ELSE "failing"

-----------------------------------------------------------------------------
(* The time-zone requests explored *)

\* The timezone query parameter of the requests explored: absent, zones the
\* server knows, one it does not know, and strings with quotes in them.
ZoneRequests ==
    {NULL, <<"UTC">>, <<"Europe/Paris">>, <<"Mars/Base">>, <<"UTC", SqlQuote>>,
     <<"UTC", SqlQuote, "||", SqlQuote>>, <<"O", SqlQuote, SqlQuote, "Hare">>}

\* A worker that has no weather-data request.  Besides the locals of
\* weather_data_list a job records the zone it found on the connection, the
\* connection its SET TIME ZONE succeeded on, and the connection and zone its
\* data SELECT ran on.
NoJob ==
    [stage |-> "none", timezone |-> NULL, quoteQuery |-> <<>>, escapedTz |-> <<>>,
     queryTz |-> <<>>, foundZone |-> <<>>, setOk |-> FALSE, setConn |-> 0, ranConn |-> 0,
     ranZone |-> <<>>, ret |-> "none"]

ZoneInit ==
    /\ wq = [zone |-> [c \in 1..MAX_CONN |-> ServerZone], job |-> [t \in Threads |-> NoJob]]
    /\ users = InitUsers
    /\ sessions = <<>>
    /\ now = 0
    /\ last = Idle
    /\ deletedOK = {}
    /\ stations = <<>>
    /\ api_keys = <<>>
    /\ pool = InitPool
    /\ poolMutex = 0
    /\ poolCond = {}
    /\ pc = [t \in Threads |-> "idle"]
    /\ held = [t \in Threads |-> 0]

\* weather_data_list is called: the null checks, then get_conn().
WdlEnter(t) ==
    /\ pc[t] = "idle"
    /\ \E timezone \in ZoneRequests :
           IF timezone = NULL
           THEN /\ wq' = [wq EXCEPT !.job[t] = [NoJob EXCEPT !.ret = "INVALID_PARAMS"]]
                /\ UNCHANGED pc
           ELSE /\ wq' = [wq EXCEPT !.job[t] = [NoJob EXCEPT !.stage = "borrowing",
                                                            !.timezone = timezone]]
                /\ pc' = [pc EXCEPT ![t] = "lock"]
    /\ UNCHANGED <<pool, poolMutex, poolCond, held, users, sessions, now, last,
                   deletedOK, stations, api_keys>>

\* PQexec(conn, quoteQuery) on the borrowed connection.
WdlQuote(t) ==
    /\ pc[t] = "use"
    /\ wq.job[t].stage = "borrowing"
    /\ LET quoteQuery == QuoteQuery(wq.job[t].timezone)
           res == ExecQuote(quoteQuery)
       IN  wq' = [wq EXCEPT !.job[t] =
                     IF res.ok
                     THEN [@ EXCEPT !.stage = "quoted", !.quoteQuery = quoteQuery,
                                    !.escapedTz = res.value,
                                    !.foundZone = wq.zone[held[t]]]
                     ELSE [@ EXCEPT !.stage = "failing", !.quoteQuery = quoteQuery,
                                    !.ret = "DB_ERROR"]]
    /\ UNCHANGED <<pool, poolMutex, poolCond, pc, held, users, sessions, now, last,
                   deletedOK, stations, api_keys>>

\* PQexec(conn, queryTz) on the borrowed connection; broken stands for a
\* failure of the connection.
WdlSetZone(t) ==
    /\ pc[t] = "use"
    /\ wq.job[t].stage = "quoted"
    /\ \E broken \in BOOLEAN :
           LET queryTz == QueryTz(wq.job[t].escapedTz)
               res == ExecSetZone(queryTz)
               ok == res.ok /\ ~broken
           IN  wq' = [wq EXCEPT
                         !.zone[held[t]] = IF ok THEN res.zone ELSE @,
                         !.job[t] = [@ EXCEPT !.stage = AfterSetZone(ok),
                                              !.queryTz = queryTz,
                                              !.setOk = ok,
                                              !.setConn = IF ok THEN held[t] ELSE 0,
                                              !.ret = IF AfterSetZone(ok) = "failing"
                                                      THEN "DB_ERROR" ELSE @]]
    /\ UNCHANGED <<pool, poolMutex, poolCond, pc, held, users, sessions, now, last,
                   deletedOK, stations, api_keys>>

\* PQexecParams(conn, query, ...): the data SELECT runs under the zone in
\* force on the connection.
WdlSelect(t) ==
    /\ pc[t] = "use"
    /\ wq.job[t].stage = "zoned"
    /\ \E ret \in {"OK", "DB_ERROR"} :
           wq' = [wq EXCEPT !.job[t] = [@ EXCEPT !.stage = "selected",
                                                !.ranConn = held[t],
                                                !.ranZone = wq.zone[held[t]],
                                                !.ret = ret]]
    /\ UNCHANGED <<pool, poolMutex, poolCond, pc, held, users, sessions, now, last,
                   deletedOK, stations, api_keys>>

\* release_conn(conn) on the three error paths and at the end.
WdlRelease(t) ==
    /\ wq.job[t].stage \in {"failing", "selected"}
    /\ LockRelease(t)

\* release_conn's body, after which weather_data_list returns wq.job[t].ret.
WdlReturn(t) ==
    /\ ReleaseBody(t)
    /\ wq' = [wq EXCEPT !.job[t] = NoJob]
    /\ UNCHANGED <<users, sessions, now, last, deletedOK, stations, api_keys>>

ZoneNext ==
    \E t \in Threads :
        \/ WdlEnter(t)
        \/ LockGetConn(t)
        \/ ScanGetConn(t)
        \/ SpuriousWake(t)
        \/ RelockGetConn(t)
        \/ WdlQuote(t)
        \/ WdlSetZone(t)
        \/ WdlSelect(t)
        \/ WdlRelease(t)
        \/ WdlReturn(t)

ZoneSpec == ZoneInit /\ [][ZoneNext]_vars

-----------------------------------------------------------------------------
(* server.c and handlers.c: from a request to its response *)

\* microhttpd's status codes used by the handlers.
MHD_HTTP_OK == 200
MHD_HTTP_CREATED == 201
MHD_HTTP_NO_CONTENT == 204
MHD_HTTP_BAD_REQUEST == 400
MHD_HTTP_UNAUTHORIZED == 401
MHD_HTTP_FORBIDDEN == 403
MHD_HTTP_NOT_FOUND == 404
MHD_HTTP_INTERNAL_SERVER_ERROR == 500

\* apiError_t
ApiErrors ==
    {"OK", "INVALID_PARAMS", "AUTH_ERROR", "NOT_FOUND", "DB_ERROR", "FORBIDDEN",
     "MEMORY_ERROR", "JSON_ERROR"}

\* What responseData->data points to: nothing, the JSON text
\* {"error":"<message>"}, or the JSON text of a service's result.
NullData == [kind |-> "null"]

ErrorBody(message) == [kind |-> "error", error |-> message]

JsonData == [kind |-> "json"]

\* strdup(""): a body of no bytes.
EmptyBody == [kind |-> "empty"]

\* (mutation) API_FORBIDDEN is answered like API_AUTH_ERROR.
apiError_to_http_Merged(err) ==
    [httpStatus |-> IF err = "INVALID_PARAMS" THEN MHD_HTTP_BAD_REQUEST
                    ELSE IF err \in {"AUTH_ERROR", "FORBIDDEN"} THEN MHD_HTTP_UNAUTHORIZED
                    ELSE IF err = "NOT_FOUND" THEN MHD_HTTP_NOT_FOUND
                    ELSE MHD_HTTP_INTERNAL_SERVER_ERROR,
     data |-> ErrorBody("Internal server error")]

\* apiError_to_http: the switch; API_OK falls to the default case.
apiError_to_http(err) ==
    CASE err = "INVALID_PARAMS" ->
             [httpStatus |-> MHD_HTTP_BAD_REQUEST, data |-> ErrorBody("Invalid parameters")]
      [] err = "AUTH_ERROR" ->
             [httpStatus |-> MHD_HTTP_UNAUTHORIZED, data |-> ErrorBody("Authentication error")]
      [] err = "FORBIDDEN" ->
             [httpStatus |-> MHD_HTTP_FORBIDDEN, data |-> ErrorBody("Forbidden")]
      [] err = "NOT_FOUND" ->
             [httpStatus |-> MHD_HTTP_NOT_FOUND, data |-> ErrorBody("Resource not found")]
      [] err = "DB_ERROR" ->
             [httpStatus |-> MHD_HTTP_INTERNAL_SERVER_ERROR, data |-> ErrorBody("Database error")]
      [] err = "JSON_ERROR" ->
             [httpStatus |-> MHD_HTTP_INTERNAL_SERVER_ERROR,
              data |-> ErrorBody("Json parsing error")]
      [] err = "MEMORY_ERROR" ->
             [httpStatus |-> MHD_HTTP_INTERNAL_SERVER_ERROR, data |-> ErrorBody("Memory error")]
      [] OTHER ->
             [httpStatus |-> MHD_HTTP_INTERNAL_SERVER_ERROR,
              data |-> ErrorBody("Internal server error")]

\* handle_request: struct ResponseData as initialised, and as history the
\* service a handler called and the code it returned.
InitialMaxAge == 3600

InitResponseData ==
    [data |-> NullData, httpStatus |-> MHD_HTTP_NOT_FOUND, sessionToken |-> NoToken,
     sessionTokenMaxAge |-> InitialMaxAge, called |-> "none", code |-> "none"]

\* httpStatus = apiError_to_http(code, &data) after service ran (or, with
\* service "none", before any service was called).
Refuse(responseData, service, code) ==
    [responseData EXCEPT !.httpStatus = apiError_to_http(code).httpStatus,
                         !.data = apiError_to_http(code).data,
                         !.called = service, !.code = IF service = "none" THEN @ ELSE code]

\* A handler that calls service and, when it returns API_OK, dumps its JSON.
AnswerJson(responseData, service, code) ==
    IF code # "OK" THEN Refuse(responseData, service, code)
    ELSE [responseData EXCEPT !.data = JsonData, !.called = service, !.code = code]

\* A handler that calls service and writes nothing when it returns API_OK.
AnswerEmpty(responseData, service, code) ==
    IF code # "OK" THEN Refuse(responseData, service, code)
    ELSE [responseData EXCEPT !.called = service, !.code = code]

\* The body of a request is empty, text that is no JSON object, or a JSON
\* object with its string members.
\* !postData || postDataSize <= 0
NoPostData(postData) == postData.kind = "empty"

\* json_loadb(...) and json_is_object(root)
IsJsonObject(postData) == postData.kind = "object"

\* json_string_value(json_object_get(root, key))
JsonString(root, key) == IF key \in DOMAIN root THEN root[key] ELSE NULL

\* The POST handlers: an empty body or one that is no JSON object is answered
\* API_INVALID_PARAMS before the service is called.
handle_users_create(responseData, postData, code) ==
    IF NoPostData(postData) \/ ~IsJsonObject(postData)
    THEN Refuse(responseData, "none", "INVALID_PARAMS")
    ELSE AnswerJson(responseData, "users_create", code)

handle_stations_create(responseData, postData, code) ==
    IF NoPostData(postData) \/ ~IsJsonObject(postData)
    THEN Refuse(responseData, "none", "INVALID_PARAMS")
    ELSE AnswerJson(responseData, "stations_create", code)

handle_api_key_create(responseData, postData, code) ==
    IF NoPostData(postData) \/ ~IsJsonObject(postData)
    THEN Refuse(responseData, "none", "INVALID_PARAMS")
    ELSE AnswerJson(responseData, "api_key_create", code)

\* (mutation) the token is handed to the response whatever the service returned.
SessionTokenOf_Always(code, tokenB64) == tokenB64

\* handle_sessions_create: responseData->sessionToken = strdup(tokenB64) is
\* reached only past the errorCode != API_OK return.
SessionTokenOf(code, tokenB64) == IF code = "OK" THEN tokenB64 ELSE NoToken

\* handle_sessions_create; code and tokenB64 are what sessions_create returns
\* and writes to the handler's buffer.
handle_sessions_create(responseData, postData, code, tokenB64) ==
    IF NoPostData(postData) \/ ~IsJsonObject(postData)
    THEN Refuse(responseData, "none", "INVALID_PARAMS")
    ELSE [AnswerJson(responseData, "sessions_create", code)
             EXCEPT !.sessionTokenMaxAge = DEFAULT_SESSION_AGE,
                    !.sessionToken = SessionTokenOf(code, tokenB64)]

\* handle_user
handle_user(method, responseData, postData, code) ==
    IF method = "GET"
    THEN AnswerJson([responseData EXCEPT !.httpStatus = MHD_HTTP_OK], "users_list", code)
    ELSE IF method = "POST"
    THEN handle_users_create([responseData EXCEPT !.httpStatus = MHD_HTTP_CREATED],
                             postData, code)
    ELSE IF method = "DELETE"
    THEN AnswerEmpty([responseData EXCEPT !.httpStatus = MHD_HTTP_NO_CONTENT],
                     "users_delete", code)
    ELSE responseData

\* handle_sessions
handle_sessions(method, responseData, postData, code, tokenB64) ==
    IF method = "GET"
    THEN AnswerJson([responseData EXCEPT !.httpStatus = MHD_HTTP_OK], "sessions_list", code)
    ELSE IF method = "POST"
    THEN handle_sessions_create([responseData EXCEPT !.httpStatus = MHD_HTTP_CREATED],
                                postData, code, tokenB64)
    ELSE IF method = "DELETE"
    THEN AnswerEmpty([responseData EXCEPT !.httpStatus = MHD_HTTP_NO_CONTENT],
                     "sessions_delete", code)
    ELSE responseData

\* handle_stations
handle_stations(method, responseData, postData, code) ==
    IF method = "GET"
    THEN AnswerJson([responseData EXCEPT !.httpStatus = MHD_HTTP_OK], "stations_list", code)
    ELSE IF method = "POST"
    THEN handle_stations_create([responseData EXCEPT !.httpStatus = MHD_HTTP_CREATED],
                                postData, code)
    ELSE responseData

\* handle_api_key
handle_api_key(method, responseData, postData, code) ==
    IF method = "POST"
    THEN handle_api_key_create([responseData EXCEPT !.httpStatus = MHD_HTTP_CREATED],
                               postData, code)
    ELSE responseData

\* handle_weather_data_list
handle_weather_data_list(responseData, code) ==
    AnswerJson([responseData EXCEPT !.httpStatus = MHD_HTTP_OK], "weather_data_list", code)

\* The router's URL patterns, on a path split at its slashes.
Route(url) ==
    CASE Len(url) \in 1..2 /\ url[1] = "users" -> "user"
      [] Len(url) \in 3..4 /\ url[1] = "users" /\ url[3] = "sessions" -> "sessions"
      [] Len(url) \in 3..4 /\ url[1] = "users" /\ url[3] = "api-keys" -> "api_key"
      [] Len(url) \in 1..2 /\ url[1] = "stations" -> "stations"
      [] Len(url) = 3 /\ url[1] = "stations" /\ url[3] = "weather-data" -> "weather_data"
      [] OTHER -> "none"

\* yylex(scanner): the handler the matched pattern's rule calls.
Dispatch(method, url, responseData, postData, code, tokenB64) ==
    CASE Route(url) = "user" -> handle_user(method, responseData, postData, code)
      [] Route(url) = "sessions" ->
             handle_sessions(method, responseData, postData, code, tokenB64)
      [] Route(url) = "api_key" -> handle_api_key(method, responseData, postData, code)
      [] Route(url) = "stations" -> handle_stations(method, responseData, postData, code)
      [] Route(url) = "weather_data" /\ method = "GET" ->
             handle_weather_data_list(responseData, code)
      [] OTHER -> responseData

\* No Set-Cookie header.
NoCookie == [name |-> NULL]

\* handle_request from "Response handling" on: the status, body and headers
\* queued for the client.
Respondence(method, responseData) ==
    [httpStatus |-> responseData.httpStatus,
     body |-> IF responseData.data = NullData THEN EmptyBody ELSE responseData.data,
     contentType |-> "application/json",
     allowOrigin |-> IF method = "GET" THEN "*" ELSE NULL,
     setCookie |-> IF responseData.sessionToken # NoToken
                   THEN [name |-> "sessiontoken", value |-> responseData.sessionToken,
                         path |-> "/", httpOnly |-> TRUE, secure |-> TRUE,
                         sameSite |-> "Lax", maxAge |-> responseData.sessionTokenMaxAge]
                   ELSE NoCookie,
     called |-> responseData.called, code |-> responseData.code]

-----------------------------------------------------------------------------
(* The HTTP requests explored *)

Methods == {"GET", "POST", "DELETE", "PATCH", "PUT"}

\* Paths of the nine patterns, and three that match none.
Urls ==
    {<<"users">>, <<"users", "alice">>, <<"users", "alice", "sessions">>,
     <<"users", "alice", "sessions", "1">>, <<"users", "alice", "api-keys">>,
     <<"users", "alice", "api-keys", "key-1">>, <<"stations">>, <<"stations", "garden">>,
     <<"stations", "garden", "weather-data">>,
     <<"health">>, <<"users", "alice", "profile">>, <<"stations", "garden", "weather-data", "x">>}

\* Request bodies: none, text that is no JSON object, and objects with a
\* right, a wrong and no password.
Bodies ==
    {[kind |-> "empty"], [kind |-> "text"], [kind |-> "object", password |-> "pw1"],
     [kind |-> "object", password |-> "pw2"], [kind |-> "object", name |-> "garden"]}

HttpRequests == [method : Methods, url : Urls, postData : Bodies]

HttpInit ==
    /\ last \in [op : {"http"}, stage : {"request"}, request : HttpRequests]
    /\ users = <<InitUsers[1], Alice>>
    /\ sessions = <<>>
    /\ now = 0
    /\ deletedOK = {}
    /\ stations = <<>>
    /\ api_keys = <<>>
    /\ wq = NoQuery
    /\ pool = InitPool
    /\ poolMutex = 0
    /\ poolCond = {}
    /\ pc = [t \in Threads |-> "idle"]
    /\ held = [t \in Threads |-> 0]

\* The id a path names, NULL for a collection path.
UserIdOf(url) == IF Len(url) >= 2 THEN url[2] ELSE NULL

\* handle_request on a request whose handler calls sessions_create: the
\* service runs on the tables and the pool.
HandleSessionsCreate ==
    /\ last.op = "http" /\ last.stage = "request"
    /\ Route(last.request.url) = "sessions" /\ last.request.method = "POST"
    /\ IsJsonObject(last.request.postData)
    /\ \E rnd \in FreshTokens, fault \in {"none", "insert", "json"} :
           LET o == sessions_create(users, sessions, now, UserIdOf(last.request.url),
                                    JsonString(last.request.postData, "password"),
                                    DEFAULT_SESSION_AGE, rnd, fault)
               tokenB64 == IF o.token = NoToken THEN Bin2Base64(rnd) ELSE o.token
               responseData == Dispatch(last.request.method, last.request.url,
                                        InitResponseData, last.request.postData,
                                        o.ret, tokenB64)
           IN  /\ o.borrowed => FirstFree(pool) # 0
               /\ Len(o.sessions) <= MaxSessions
               /\ sessions' = o.sessions
               /\ pool' = IF ~o.borrowed THEN pool
                          ELSE IF o.released
                               THEN MarkFree(MarkBusy(pool, FirstFree(pool)),
                                             pool[FirstFree(pool)].conn)
                               ELSE MarkBusy(pool, FirstFree(pool))
               /\ last' = [op |-> "http", stage |-> "response", request |-> last.request,
                           response |-> Respondence(last.request.method, responseData)]
    /\ UNCHANGED <<users, now, poolMutex, poolCond, pc, held, deletedOK, stations,
                   api_keys, wq>>

\* handle_request on every other request; code is what the service the
\* handler calls, if it calls one, returns.
HandleRequest ==
    /\ last.op = "http" /\ last.stage = "request"
    /\ ~(/\ Route(last.request.url) = "sessions" /\ last.request.method = "POST"
         /\ IsJsonObject(last.request.postData))
    /\ \E code \in ApiErrors :
           last' = [op |-> "http", stage |-> "response", request |-> last.request,
                    response |-> Respondence(last.request.method,
                                             Dispatch(last.request.method, last.request.url,
                                                      InitResponseData,
                                                      last.request.postData, code, NoToken))]
    /\ UNCHANGED <<pool, poolMutex, poolCond, pc, held, users, sessions, now, deletedOK,
                   stations, api_keys, wq>>

\* The next request arrives.
NextRequest ==
    /\ last.op = "http" /\ last.stage = "response"
    /\ \E request \in HttpRequests :
           last' = [op |-> "http", stage |-> "request", request |-> request]
    /\ UNCHANGED <<pool, poolMutex, poolCond, pc, held, users, sessions, now, deletedOK,
                   stations, api_keys, wq>>

HttpNext ==
    \/ HandleSessionsCreate
    \/ HandleRequest
    \/ NextRequest

HttpSpec == HttpInit /\ [][HttpNext]_vars

-----------------------------------------------------------------------------
(* main.c and database.c: start-up and shutdown *)

\* ConnWrapper pool[MAX_CONN] before init_pool: static storage, all zero.
ZeroPool == [i \in 1..MAX_CONN |-> [conn |-> 0, busy |-> 0]]

\* The number of slots init_pool fills: the loop bound is the macro MAX_CONN,
\* whatever the machine and the environment are.
PoolSize(nprocs, maxDbConn) == MAX_CONN

\* free_pool: PQfinish on every slot's connection.
free_pool(open) == {}

\* What init_pool does with the connections it opened when a later one
\* fails: it returns false and leaves them as they are.
AbandonPool(open) == open

\* The machine and environment a process starts in: online processors and
\* the variable MAX_DB_CONN (<<>> when unset).
Processors == {1, 2, 4}

MaxDbConnValues == {<<>>, <<0 - 1>>, <<0>>, <<1>>, <<3>>}

\* The process at the first statement of main.
Booting(nprocs, maxDbConn) ==
    [op |-> "boot", stage |-> "sodium", nprocs |-> nprocs, maxDbConn |-> maxDbConn,
     i |-> 0, size |-> 0, open |-> {}, server |-> FALSE, nThreads |-> 0, exit |-> "none"]

BootInit ==
    /\ last \in {Booting(n, m) : n \in Processors, m \in MaxDbConnValues}
    /\ pool = ZeroPool
    /\ users = InitUsers
    /\ sessions = <<>>
    /\ now = 0
    /\ deletedOK = {}
    /\ stations = <<>>
    /\ api_keys = <<>>
    /\ wq = NoQuery
    /\ poolMutex = 0
    /\ poolCond = {}
    /\ pc = [t \in Threads |-> "idle"]
    /\ held = [t \in Threads |-> 0]

\* return EXIT_FAILURE from main
ExitFailure(boot) == [boot EXCEPT !.stage = "exited", !.exit = "EXIT_FAILURE"]

\* main: sodium_init() < 0
SodiumInit ==
    /\ last.op = "boot" /\ last.stage = "sodium"
    /\ \E ok \in BOOLEAN :
           last' = IF ok THEN [last EXCEPT !.stage = "vars"] ELSE ExitFailure(last)
    /\ UNCHANGED <<pool, poolMutex, poolCond, pc, held, users, sessions, now, deletedOK,
                   stations, api_keys, wq>>

\* main: init_db_vars(), false when one of the five variables is unset.
InitDbVars ==
    /\ last.op = "boot" /\ last.stage = "vars"
    /\ \E ok \in BOOLEAN :
           last' = IF ok THEN [last EXCEPT !.stage = "pool"] ELSE ExitFailure(last)
    /\ UNCHANGED <<pool, poolMutex, poolCond, pc, held, users, sessions, now, deletedOK,
                   stations, api_keys, wq>>

\* One iteration of init_pool's loop: init_db_conn() opens connection i + 1,
\* or fails (PQfinish of the failed handle, NULL) and init_pool returns false
\* to main, which returns EXIT_FAILURE.  The last iteration returns true.
InitPoolStep ==
    /\ last.op = "boot" /\ last.stage = "pool"
    /\ last.i < PoolSize(last.nprocs, last.maxDbConn)
    /\ \E connected \in BOOLEAN :
           IF connected
           THEN /\ pool' = [pool EXCEPT ![last.i + 1] = [conn |-> last.i + 1, busy |-> 0]]
                /\ last' = [last EXCEPT
                               !.i = @ + 1,
                               !.open = @ \cup {last.i + 1},
                               !.size = IF last.i + 1 = PoolSize(last.nprocs, last.maxDbConn)
                                        THEN last.i + 1 ELSE @,
                               !.stage = IF last.i + 1 = PoolSize(last.nprocs, last.maxDbConn)
                                         THEN "server" ELSE @]
           ELSE /\ pool' = pool
                /\ last' = [ExitFailure(last) EXCEPT !.open = AbandonPool(@)]
    /\ UNCHANGED <<poolMutex, poolCond, pc, held, users, sessions, now, deletedOK,
                   stations, api_keys, wq>>

\* main: nThreads = sysconf(_SC_NPROCESSORS_ONLN); http_server_init; on
\* failure free_pool() and EXIT_FAILURE.
HttpServerInit ==
    /\ last.op = "boot" /\ last.stage = "server"
    /\ \E ok \in BOOLEAN :
           last' = IF ok
                   THEN [last EXCEPT !.stage = "running", !.server = TRUE,
                                     !.nThreads = last.nprocs]
                   ELSE [ExitFailure(last) EXCEPT !.open = free_pool(@),
                                                  !.nThreads = last.nprocs]
    /\ UNCHANGED <<pool, poolMutex, poolCond, pc, held, users, sessions, now, deletedOK,
                   stations, api_keys, wq>>

\* SIGINT / SIGTERM: the loop ends, http_server_cleanup, free_pool,
\* EXIT_SUCCESS.
Shutdown ==
    /\ last.op = "boot" /\ last.stage = "running"
    /\ last' = [last EXCEPT !.stage = "exited", !.exit = "EXIT_SUCCESS",
                            !.server = FALSE, !.open = free_pool(@)]
    /\ UNCHANGED <<pool, poolMutex, poolCond, pc, held, users, sessions, now, deletedOK,
                   stations, api_keys, wq>>

BootNext ==
    \/ SodiumInit
    \/ InitDbVars
    \/ InitPoolStep
    \/ HttpServerInit
    \/ Shutdown

BootSpec == BootInit /\ [][BootNext]_vars

-----------------------------------------------------------------------------
(* utils.c: a query result as JSON *)

\* Rows a result may hold.
MaxRows == 3

\* The columns of the results explored, with their type OIDs: text (25, not
\* in the switch), int4 (23) and bool (16).
ResultFields ==
    <<[name |-> "username", oid |-> 25],
      [name |-> "max_stations", oid |-> 23],
      [name |-> "is_admin", oid |-> 16]>>

Cell(value) == [isnull |-> FALSE, value |-> value]

NullCell == [isnull |-> TRUE, value |-> ""]

\* json_null / json_boolean / json_integer / json_real / json_string of one
\* cell:  the switch on PQftype.
JsonValue(oid, cell) ==
    IF cell.isnull THEN [type |-> "null", lit |-> "null"]
    ELSE IF oid = 16 THEN [type |-> "boolean", lit |-> IF cell.value = "t" THEN "true" ELSE "false"]
    ELSE IF oid \in {20, 21, 23} THEN [type |-> "integer", lit |-> cell.value]
    ELSE IF oid \in {700, 701} THEN [type |-> "real", lit |-> cell.value]
    ELSE [type |-> "string", lit |-> cell.value]

\* The inner loop: one member per column, named after the column.
JsonObject(fields, row) ==
    [kind |-> "object",
     members |-> [j \in 1..Len(fields) |->
                     [name |-> fields[j].name, value |-> JsonValue(fields[j].oid, row[j])]]]

JsonArray(items) == [kind |-> "array", items |-> items]

\* A NULL json_t pointer.
NoJson == [kind |-> "NULL"]

\* (mutation) a single row is unwrapped whatever canBeObject says.
Unwrap_AnySingle(jsonArray, nRows, canBeObject) ==
    IF nRows = 1 THEN jsonArray.items[1] ELSE jsonArray

\* if (nRows == 1 && canBeObject) return json_array_get(jsonArray, 0);
\* return jsonArray;
Unwrap(jsonArray, nRows, canBeObject) ==
    IF nRows = 1 /\ canBeObject THEN jsonArray.items[1] ELSE jsonArray

\* pgresult_to_json; alloc is whether every jansson allocation succeeds.
pgresult_to_json(res, canBeObject, alloc) ==
    IF res.status # "PGRES_TUPLES_OK" THEN NoJson
    ELSE IF ~alloc THEN NoJson
    ELSE LET nRows == Len(res.rows)
         IN  IF nRows = 0 THEN JsonArray(<<>>)
             ELSE Unwrap(JsonArray([i \in 1..nRows |-> JsonObject(res.fields, res.rows[i])]),
                         nRows, canBeObject)

\* The tail every list service shares (users_list, sessions_list,
\* stations_list, api_key_list): the status test, the zero-row exit, the
\* conversion with canBeObject = (ref != NULL), the JSON_ERROR exit.
ListTail(res, ref, alloc, emptyRet) ==
    IF res.status # "PGRES_TUPLES_OK" THEN [ret |-> "DB_ERROR", out |-> NoJson]
    ELSE IF Len(res.rows) = 0 THEN [ret |-> emptyRet, out |-> NoJson]
    ELSE LET out == pgresult_to_json(res, ref # NULL, alloc)
         IN  IF out = NoJson THEN [ret |-> "JSON_ERROR", out |-> NoJson]
             ELSE [ret |-> "OK", out |-> out]

(* The results explored *)

RowValues ==
    {<<Cell("root"), Cell("1"), Cell("t")>>,
     <<Cell("alice"), NullCell, Cell("f")>>}

RECURSIVE SeqsUpTo(_, _)
SeqsUpTo(S, n) ==
    IF n = 0 THEN {<<>>}
    ELSE LET shorter == SeqsUpTo(S, n - 1)
         IN  shorter \cup {Append(q, x) : q \in {r \in shorter : Len(r) = n - 1}, x \in S}

Results ==
    {[status |-> st, fields |-> ResultFields, rows |-> rows] :
        st \in {"PGRES_TUPLES_OK", "PGRES_FATAL_ERROR"}, rows \in SeqsUpTo(RowValues, MaxRows)}

JsonInit ==
    /\ last \in {[op |-> "json", stage |-> "result", res |-> r, canBeObject |-> c,
                  ref |-> ref, ret |-> "none", out |-> NoJson] :
                    r \in Results, c \in BOOLEAN, ref \in {NULL, "alice"}}
    /\ pool = InitPool
    /\ users = InitUsers
    /\ sessions = <<>>
    /\ now = 0
    /\ deletedOK = {}
    /\ stations = <<>>
    /\ api_keys = <<>>
    /\ wq = NoQuery
    /\ poolMutex = 0
    /\ poolCond = {}
    /\ pc = [t \in Threads |-> "idle"]
    /\ held = [t \in Threads |-> 0]

\* A direct call of pgresult_to_json.
PgresultToJson ==
    /\ last.op = "json" /\ last.stage = "result"
    /\ \E alloc \in BOOLEAN :
           last' = [last EXCEPT !.stage = "converted",
                                !.out = pgresult_to_json(last.res, last.canBeObject, alloc)]
    /\ UNCHANGED <<pool, poolMutex, poolCond, pc, held, users, sessions, now, deletedOK,
                   stations, api_keys, wq>>

\* A list service reaching its result with reference last.ref.
ListService ==
    /\ last.op = "json" /\ last.stage = "result"
    /\ \E alloc \in BOOLEAN, emptyRet \in {"NOT_FOUND", "FORBIDDEN"} :
           LET tail == ListTail(last.res, last.ref, alloc, emptyRet)
           IN  last' = [last EXCEPT !.stage = "listed", !.ret = tail.ret, !.out = tail.out]
    /\ UNCHANGED <<pool, poolMutex, poolCond, pc, held, users, sessions, now, deletedOK,
                   stations, api_keys, wq>>

JsonNext ==
    \/ PgresultToJson
    \/ ListService

JsonSpec == JsonInit /\ [][JsonNext]_vars

-----------------------------------------------------------------------------
(* weather.c: station creation by concurrent workers *)

\* The server runs at PostgreSQL's default isolation level (the code sets
\* none): a statement reads the rows committed when it started, and an
\* INSERT ... SELECT takes no lock that another connection's INSERT waits
\* for.  A statement is therefore two steps, its reads and its writes.

\* Alice's session cookie and the row her login left in auth.user_sessions.
AliceToken == generateSessionToken([i \in 1..KEY_ENTROPY |-> 1])

\* A worker that has no stations_create call at hand.
NoCreate == [stage |-> "none", name |-> NULL, userUUID |-> NULL, admitted |-> {}, ret |-> "none"]

RaceInit ==
    /\ \E k \in AliceQuotas : users = InitUsers \o <<[Alice EXCEPT !.max_stations = k]>>
    /\ sessions = InsertSessions(<<InitUsers[1], Alice>>, <<>>, 0, "alice",
                                 AliceToken.hashB64, DEFAULT_SESSION_AGE)
    /\ now = 0
    /\ last = Idle
    /\ deletedOK = {}
    /\ stations = <<>>
    /\ api_keys = <<>>
    /\ wq = [job |-> [t \in Threads |-> NoCreate]]
    /\ pool = InitPool
    /\ poolMutex = 0
    /\ poolCond = {}
    /\ pc = [t \in Threads |-> "idle"]
    /\ held = [t \in Threads |-> 0]

\* stations_create is called with Alice's cookie: the null checks,
\* validate_name, then get_conn().
ScEnter(t) ==
    /\ pc[t] = "idle"
    /\ wq.job[t].stage = "none"
    /\ Len(stations) < MaxStations
    /\ \E name \in {"garden", "x"} :
           IF validate_name(name)
           THEN /\ wq' = [wq EXCEPT !.job[t] = [NoCreate EXCEPT !.stage = "borrowing",
                                                               !.name = name]]
                /\ pc' = [pc EXCEPT ![t] = "lock"]
           ELSE /\ wq' = [wq EXCEPT !.job[t] = [NoCreate EXCEPT !.ret = "INVALID_PARAMS"]]
                /\ UNCHANGED pc
    /\ UNCHANGED <<pool, poolMutex, poolCond, held, users, sessions, now, last,
                   deletedOK, stations, api_keys>>

\* get_user_session_token(conn, &userUUID, authData->sessionToken)
ScValidate(t) ==
    /\ pc[t] = "use"
    /\ wq.job[t].stage = "borrowing"
    /\ \E dbok \in BOOLEAN :
           LET g == get_user_session_token(users, sessions, AliceToken.tokenB64,
                                           [i \in 1..KEY_ENTROPY |-> 0], dbok)
           IN  wq' = [wq EXCEPT !.job[t] =
                         IF g.ok THEN [@ EXCEPT !.stage = "validated", !.userUUID = g.userUUID]
                         ELSE [@ EXCEPT !.stage = "done", !.ret = "AUTH_ERROR"]]
    /\ UNCHANGED <<pool, poolMutex, poolCond, pc, held, users, sessions, now, last,
                   deletedOK, stations, api_keys>>

\* PQexecParams of the INSERT ... SELECT, first half: the server evaluates
\* the SELECT, quota subquery included, on the rows committed so far.
ScSelect(t) ==
    /\ pc[t] = "use"
    /\ wq.job[t].stage = "validated"
    /\ wq' = [wq EXCEPT !.job[t] =
                 [@ EXCEPT !.stage = "selected",
                           !.admitted = QuotaAdmits(users, stations, wq.job[t].userUUID)]]
    /\ UNCHANGED <<pool, poolMutex, poolCond, pc, held, users, sessions, now, last,
                   deletedOK, stations, api_keys>>

\* Second half: the rows the SELECT yielded are inserted and committed;
\* no row gives API_FORBIDDEN.
ScInsert(t) ==
    /\ pc[t] = "use"
    /\ wq.job[t].stage = "selected"
    /\ IF wq.job[t].admitted = {}
       THEN /\ wq' = [wq EXCEPT !.job[t] = [@ EXCEPT !.stage = "done", !.ret = "FORBIDDEN"]]
            /\ UNCHANGED stations
       ELSE /\ stations' = Append(stations,
                                  [user_id |-> CHOOSE u \in wq.job[t].admitted : TRUE,
                                   name |-> wq.job[t].name, deleted_at |-> NoTime])
            /\ wq' = [wq EXCEPT !.job[t] = [@ EXCEPT !.stage = "done", !.ret = "OK"]]
    /\ UNCHANGED <<pool, poolMutex, poolCond, pc, held, users, sessions, now, last,
                   deletedOK, api_keys>>

\* release_conn(conn) on the way out.
ScRelease(t) ==
    /\ wq.job[t].stage = "done"
    /\ LockRelease(t)

\* release_conn's body, and stations_create returns.
ScReturn(t) ==
    /\ wq.job[t].stage = "done"
    /\ ReleaseBody(t)
    /\ wq' = [wq EXCEPT !.job[t] = NoCreate]
    /\ UNCHANGED <<users, sessions, now, last, deletedOK, stations, api_keys>>

RaceNext ==
    \E t \in Threads :
        \/ ScEnter(t)
        \/ LockGetConn(t)
        \/ ScanGetConn(t)
        \/ SpuriousWake(t)
        \/ RelockGetConn(t)
        \/ ScValidate(t)
        \/ ScSelect(t)
        \/ ScInsert(t)
        \/ ScRelease(t)
        \/ ScReturn(t)

RaceSpec == RaceInit /\ [][RaceNext]_vars

-----------------------------------------------------------------------------
(* server.c: the body of a request *)

\* #define MAX_POST_DATA_SIZE 16384 in server.c, scaled down here: the size
\* malloc is asked for, so the buffer's valid indices are 0..MAX_POST_DATA_SIZE - 1.
MAX_POST_DATA_SIZE == 4

\* method_accepts_body
method_accepts_body(method) == method \in {"POST", "PUT", "PATCH"}

\* The chunks the HTTP library may hand over in one call.
Chunks == {<<"a">>, <<"b">>, <<"a", "b">>, <<"b", "a">>}

\* A connection on which handle_request has not been called yet.  postData
\* is the text in the buffer, nulIndex the index the last '\0' was written
\* at, prev the text before the last call.
NewUpload(method) ==
    [op |-> "body", stage |-> "new", method |-> method, postData |-> <<>>, postDataSize |-> 0,
     nulIndex |-> 0, prev |-> <<>>, answer |-> "none"]

BodyInit ==
    /\ last \in {NewUpload(m) : m \in {"GET", "POST", "PUT", "PATCH"}}
    /\ pool = InitPool
    /\ users = InitUsers
    /\ sessions = <<>>
    /\ now = 0
    /\ deletedOK = {}
    /\ stations = <<>>
    /\ api_keys = <<>>
    /\ wq = NoQuery
    /\ poolMutex = 0
    /\ poolCond = {}
    /\ pc = [t \in Threads |-> "idle"]
    /\ held = [t \in Threads |-> 0]

\* The first call for a connection: requestData is allocated for a method
\* with a body (MHD_NO when calloc or malloc fails); other methods go on to
\* the routing at once.
FirstCall ==
    /\ last.op = "body" /\ last.stage = "new"
    /\ \E allocated \in BOOLEAN :
           last' = IF ~method_accepts_body(last.method)
                   THEN [last EXCEPT !.stage = "complete"]
                   ELSE IF allocated
                   THEN [last EXCEPT !.stage = "receiving", !.answer = "MHD_YES"]
                   ELSE [last EXCEPT !.stage = "refused", !.answer = "MHD_NO"]
    /\ UNCHANGED <<pool, poolMutex, poolCond, pc, held, users, sessions, now, deletedOK,
                   stations, api_keys, wq>>

\* A call with *uploadDataSize != 0: the chunk is copied behind the text
\* held and a '\0' is written after it, or the call answers MHD_NO.
UploadChunk ==
    /\ last.op = "body" /\ last.stage = "receiving"
    /\ \E uploadData \in Chunks :
           last' = IF last.postDataSize + Len(uploadData) <= MAX_POST_DATA_SIZE
                   THEN [last EXCEPT !.postData = @ \o uploadData,
                                     !.postDataSize = @ + Len(uploadData),
                                     !.nulIndex = last.postDataSize + Len(uploadData),
                                     !.prev = last.postData,
                                     !.answer = "MHD_YES"]
                   ELSE [last EXCEPT !.stage = "refused", !.prev = last.postData,
                                     !.answer = "MHD_NO"]
    /\ UNCHANGED <<pool, poolMutex, poolCond, pc, held, users, sessions, now, deletedOK,
                   stations, api_keys, wq>>

\* The call with *uploadDataSize == 0 after the last chunk:
\* postDataProcessed = 1.
EndOfUpload ==
    /\ last.op = "body" /\ last.stage = "receiving"
    /\ last' = [last EXCEPT !.stage = "complete", !.prev = last.postData, !.answer = "MHD_YES"]
    /\ UNCHANGED <<pool, poolMutex, poolCond, pc, held, users, sessions, now, deletedOK,
                   stations, api_keys, wq>>

BodyNext ==
    \/ FirstCall
    \/ UploadChunk
    \/ EndOfUpload

BodySpec == BodyInit /\ [][BodyNext]_vars

-----------------------------------------------------------------------------
(* weather.c: a login racing a password change *)

\* Each PQexecParams is a statement of its own, committed when it ends;
\* statements of different connections interleave.

\* A worker with no call at hand.  authHash is the stored password the
\* call's validate_password compared against.
NoCall == [stage |-> "none", op |-> "none", password |-> NULL, authHash |-> <<>>, ret |-> "none"]

\* Alice is registered with password pw1 and holds one session.  auth[i] is
\* the stored password session i was authenticated against; patched says
\* whether users_patch has returned OK.
StaleInit ==
    /\ users = <<InitUsers[1], Alice>>
    /\ sessions = InsertSessions(<<InitUsers[1], Alice>>, <<>>, 0, "alice",
                                 AliceToken.hashB64, DEFAULT_SESSION_AGE)
    /\ wq = [job |-> [t \in Threads |-> NoCall], auth |-> <<Alice.password>>,
             patched |-> FALSE]
    /\ now = 0
    /\ last = Idle
    /\ deletedOK = {}
    /\ stations = <<>>
    /\ api_keys = <<>>
    /\ pool = InitPool
    /\ poolMutex = 0
    /\ poolCond = {}
    /\ pc = [t \in Threads |-> "idle"]
    /\ held = [t \in Threads |-> 0]

\* sessions_create("alice", password) is called: the null checks, get_conn().
LgEnter(t) ==
    /\ pc[t] = "idle"
    /\ wq.job[t].stage = "none"
    /\ Len(sessions) < MaxSessions
    /\ \E password \in {"pw1", "pw2"} :
           wq' = [wq EXCEPT !.job[t] = [NoCall EXCEPT !.stage = "borrowing",
                                                      !.op = "sessions_create",
                                                      !.password = password]]
    /\ pc' = [pc EXCEPT ![t] = "lock"]
    /\ UNCHANGED <<pool, poolMutex, poolCond, held, users, sessions, now, last,
                   deletedOK, stations, api_keys>>

\* sessions_create: validate_password(conn, userId, password); on failure
\* it returns API_AUTH_ERROR and the connection is not given back.
LgCheck(t) ==
    /\ pc[t] = "use"
    /\ wq.job[t].op = "sessions_create" /\ wq.job[t].stage = "borrowing"
    /\ IF validate_password(users, "alice", wq.job[t].password, TRUE)
       THEN /\ wq' = [wq EXCEPT !.job[t] = [@ EXCEPT !.stage = "checked",
                                                     !.authHash = users[2].password]]
            /\ UNCHANGED <<pc, held>>
       ELSE /\ wq' = [wq EXCEPT !.job[t] = [NoCall EXCEPT !.ret = "AUTH_ERROR"]]
            /\ pc' = [pc EXCEPT ![t] = "idle"]
            /\ held' = [held EXCEPT ![t] = 0]
    /\ UNCHANGED <<pool, poolMutex, poolCond, users, sessions, now, last,
                   deletedOK, stations, api_keys>>

\* sessions_create: generateSessionToken and the INSERT INTO
\* auth.user_sessions.
LgInsert(t) ==
    /\ pc[t] = "use"
    /\ wq.job[t].op = "sessions_create" /\ wq.job[t].stage = "checked"
    /\ Len(sessions) < MaxSessions
    /\ \E rnd \in FreshTokens :
           sessions' = InsertSessions(users, sessions, now, "alice",
                                      generateSessionToken(rnd).hashB64, DEFAULT_SESSION_AGE)
    /\ wq' = [wq EXCEPT !.job[t] = [@ EXCEPT !.stage = "done", !.ret = "OK"],
                        !.auth = Append(@, wq.job[t].authHash)]
    /\ UNCHANGED <<pool, poolMutex, poolCond, pc, held, users, now, last,
                   deletedOK, stations, api_keys>>

\* users_patch("alice", oldPass = "pw1", newPass = "pw2") is called with
\* Alice's cookie: the null checks, get_conn().
PtEnter(t) ==
    /\ pc[t] = "idle"
    /\ wq.job[t].stage = "none"
    /\ ~wq.patched
    /\ \A x \in Threads : wq.job[x].op # "users_patch"
    /\ wq' = [wq EXCEPT !.job[t] = [NoCall EXCEPT !.stage = "borrowing",
                                                  !.op = "users_patch"]]
    /\ pc' = [pc EXCEPT ![t] = "lock"]
    /\ UNCHANGED <<pool, poolMutex, poolCond, held, users, sessions, now, last,
                   deletedOK, stations, api_keys>>

\* users_patch: validate_session_token (on failure release_conn and
\* API_AUTH_ERROR), then validate_password(oldPass) (on failure
\* API_AUTH_ERROR with the connection not given back) and
\* crypto_pwhash_str(newPass).
PtCheck(t) ==
    /\ pc[t] = "use"
    /\ wq.job[t].op = "users_patch" /\ wq.job[t].stage = "borrowing"
    /\ IF ~validate_session_token(users, sessions, now, "alice", AliceToken.tokenB64,
                                  [i \in 1..KEY_ENTROPY |-> 0], TRUE)
       THEN /\ wq' = [wq EXCEPT !.job[t] = [@ EXCEPT !.stage = "done", !.ret = "AUTH_ERROR"]]
            /\ UNCHANGED <<pc, held>>
       ELSE IF validate_password(users, "alice", "pw1", TRUE)
       THEN /\ wq' = [wq EXCEPT !.job[t] = [@ EXCEPT !.stage = "checked"]]
            /\ UNCHANGED <<pc, held>>
       ELSE /\ wq' = [wq EXCEPT !.job[t] = [NoCall EXCEPT !.ret = "AUTH_ERROR"]]
            /\ pc' = [pc EXCEPT ![t] = "idle"]
            /\ held' = [held EXCEPT ![t] = 0]
    /\ UNCHANGED <<pool, poolMutex, poolCond, users, sessions, now, last,
                   deletedOK, stations, api_keys>>

\* users_patch: the UPDATE of auth.users with password = COALESCE($6, password).
PtUpdate(t) ==
    /\ pc[t] = "use"
    /\ wq.job[t].op = "users_patch" /\ wq.job[t].stage = "checked"
    /\ users' = [u \in DOMAIN users |->
                    IF u \in MatchUser(users, "alice")
                    THEN PatchRow(users[u], NULL, NULL, <<>>, <<>>, <<PwHashStr("pw2")>>)
                    ELSE users[u]]
    /\ wq' = [wq EXCEPT !.job[t] = [@ EXCEPT !.stage = "updated"]]
    /\ UNCHANGED <<pool, poolMutex, poolCond, pc, held, sessions, now, last,
                   deletedOK, stations, api_keys>>

\* users_patch: "Revoke all active sessions", the second UPDATE.
PtRevoke(t) ==
    /\ pc[t] = "use"
    /\ wq.job[t].op = "users_patch" /\ wq.job[t].stage = "updated"
    /\ sessions' = RevokeSessionsOf(users, sessions, now, "alice")
    /\ wq' = [wq EXCEPT !.job[t] = [@ EXCEPT !.stage = "done", !.ret = "OK"]]
    /\ UNCHANGED <<pool, poolMutex, poolCond, pc, held, users, now, last,
                   deletedOK, stations, api_keys>>

\* release_conn(conn) on the way out of either call.
CallRelease(t) ==
    /\ wq.job[t].stage = "done"
    /\ LockRelease(t)

\* release_conn's body, and the call returns.
CallReturn(t) ==
    /\ wq.job[t].stage = "done"
    /\ ReleaseBody(t)
    /\ wq' = [wq EXCEPT !.job[t] = NoCall,
                        !.patched = @ \/ (wq.job[t].op = "users_patch" /\ wq.job[t].ret = "OK")]
    /\ UNCHANGED <<users, sessions, now, last, deletedOK, stations, api_keys>>

StaleNext ==
    \E t \in Threads :
        \/ LgEnter(t)
        \/ PtEnter(t)
        \/ LockGetConn(t)
        \/ ScanGetConn(t)
        \/ SpuriousWake(t)
        \/ RelockGetConn(t)
        \/ LgCheck(t)
        \/ LgInsert(t)
        \/ PtCheck(t)
        \/ PtUpdate(t)
        \/ PtRevoke(t)
        \/ CallRelease(t)
        \/ CallReturn(t)

StaleSpec == StaleInit /\ [][StaleNext]_vars

-----------------------------------------------------------------------------
(* server.c and utils.c: the fields parameter of a weather-data request *)

\* Names a fields parameter may list.
MaxFieldNames == 2

\* string_to_field: the flag of a field name, -1 for an unknown name.  The
\* raw names are tested first, the summary names second.
string_to_field(fieldStr) ==
    IF fieldStr \in DOMAIN DataFieldFlags THEN DataFieldFlags[fieldStr]
    ELSE IF fieldStr \in DOMAIN SummaryFieldFlags THEN SummaryFieldFlags[fieldStr]
    ELSE 0 - 1

\* process_param: if (field >= 0) queryData->fields |= field, for a flag of
\* one bit.
OrField(fields, field) ==
    IF field < 0 THEN fields
    ELSE IF HasFlag(fields, field) THEN fields ELSE fields + field

\* process_param on key "fields": the value split at commas, fields = 0,
\* then one |= per known name.
RECURSIVE ParseFields(_, _)
ParseFields(tokens, fields) ==
    IF tokens = <<>> THEN fields
    ELSE ParseFields(Tail(tokens), OrField(fields, string_to_field(Head(tokens))))

(* The fields parameters explored *)

FieldNames == {"temperature", "humidity", "avg_humidity", "wind_run", "colour"}

FieldInit ==
    /\ wq \in [stage : {"query"}, names : SeqsUpTo(FieldNames, MaxFieldNames),
               granularityStr : {NULL, "raw", "hour", "day", "month", "year"}]
    /\ users = InitUsers
    /\ sessions = <<>>
    /\ now = 0
    /\ last = Idle
    /\ deletedOK = {}
    /\ stations = <<>>
    /\ api_keys = <<>>
    /\ pool = InitPool
    /\ poolMutex = 0
    /\ poolCond = {}
    /\ pc = [t \in Threads |-> "idle"]
    /\ held = [t \in Threads |-> 0]

\* MHD_get_connection_values(..., process_param, &queryData)
ProcessParam ==
    /\ wq.stage = "query"
    /\ wq' = [stage |-> "parsed", names |-> wq.names, granularityStr |-> wq.granularityStr,
              fields |-> ParseFields(wq.names, 0)]
    /\ UNCHANGED <<pool, poolMutex, poolCond, pc, held, users, sessions, now, last,
                   deletedOK, stations, api_keys>>

\* weather_data_list composing the static query from the parsed bitmask.
ComposeStatic ==
    /\ wq.stage = "parsed"
    /\ wq' = [stage |-> "composed", names |-> wq.names, granularityStr |-> wq.granularityStr,
              fields |-> wq.fields, path |-> "static",
              out |-> build_static_query(wq.fields,
                                         string_to_granularity(wq.granularityStr))]
    /\ UNCHANGED <<pool, poolMutex, poolCond, pc, held, users, sessions, now, last,
                   deletedOK, stations, api_keys>>

\* weather_data_list composing the dynamic query, which it does only for a
\* granularity other than raw.
ComposeGeneric ==
    /\ wq.stage = "parsed"
    /\ string_to_granularity(wq.granularityStr) # "DATA"
    /\ wq' = [stage |-> "composed", names |-> wq.names, granularityStr |-> wq.granularityStr,
              fields |-> wq.fields, path |-> "generic",
              out |-> build_generic_weather_query(wq.fields)]
    /\ UNCHANGED <<pool, poolMutex, poolCond, pc, held, users, sessions, now, last,
                   deletedOK, stations, api_keys>>

FieldNext ==
    \/ ProcessParam
    \/ ComposeStatic
    \/ ComposeGeneric

FieldSpec == FieldInit /\ [][FieldNext]_vars

-----------------------------------------------------------------------------
(* Claims about the station, session and key services *)

\* The cookie is the whole token of an active session of user u, who is not
\* an admin, and the reference names u: u is calling for their own account.
OwnCaller(u, userId, tok) ==
    /\ ~users[u].is_admin
    /\ Names(userId, u)
    /\ tok # NoToken
    /\ Len(tok) = KEY_ENTROPY
    /\ \E i \in DOMAIN sessions :
          /\ sessions[i].user_id = u
          /\ SessionRowMatches(users, sessions, now, i, TokenHashB64(Decoded(tok)), userId)

\* C11: a sessions_delete or api_key_delete made by a non-admin user for their
\* own account leaves revoked_at of every session and of every API key that
\* another user owns as it was.
C11_OwnerOnlyRevokes ==
    [][\A u \in DOMAIN users :
          (/\ last = Idle
           /\ last'.op \in {"sessions_delete", "api_key_delete"}
           /\ OwnCaller(u, last'.ref, last'.tok))
          => /\ \A i \in DOMAIN sessions :
                   sessions[i].user_id # u
                       => sessions'[i].revoked_at = sessions[i].revoked_at
             /\ \A i \in DOMAIN api_keys :
                   api_keys[i].user_id # u
                       => api_keys'[i].revoked_at = api_keys[i].revoked_at]_vars

\* The session rows holding the hash of this cookie's bytes.
RowsOfCookie(tok) ==
    {i \in DOMAIN sessions : sessions[i].session_token = TokenHashB64(Decoded(tok))}

\* The cookie is the whole token of a session, and every session it belongs
\* to is revoked, expired, or owned by a soft-deleted user.
DeadCookie(tok) ==
    /\ tok # NoToken
    /\ Len(tok) = KEY_ENTROPY
    /\ RowsOfCookie(tok) # {}
    /\ \A i \in RowsOfCookie(tok) :
          \/ ~IsNullTime(sessions[i].revoked_at)
          \/ sessions[i].expires_at <= now
          \/ ~IsNullTime(users[sessions[i].user_id].deleted_at)

\* C12: a stations_create (with a well-formed name) presenting the token of a
\* session that is revoked, expired or owned by a soft-deleted user returns
\* AUTH_ERROR and leaves the stations table as it was.
C12_StationsNeedLiveSession ==
    [][(/\ last = Idle
        /\ last'.op = "stations_create"
        /\ validate_name(last'.arg)
        /\ DeadCookie(last'.tok))
       => (last'.ret = "AUTH_ERROR" /\ stations' = stations)]_vars

\* The user the cookie's session belongs to, 0 if it is no session's token.
CookieOwner(tok) ==
    IF tok = NoToken \/ Len(tok) # KEY_ENTROPY \/ RowsOfCookie(tok) = {} THEN 0
    ELSE sessions[CHOOSE i \in RowsOfCookie(tok) : \A j \in RowsOfCookie(tok) : i <= j].user_id

\* The stations of user u that are not soft-deleted.
LiveStationsOf(u) ==
    {i \in DOMAIN stations : stations[i].user_id = u /\ stations[i].deleted_at = NoTime}

\* C13: a stations_create by user u, every query succeeding, returns OK and
\* inserts one station of u when u's max_stations is -1 or exceeds the number
\* of u's stations that are not soft-deleted; otherwise it returns FORBIDDEN
\* and inserts nothing.  (So from no active station the first k calls succeed
\* and the (k+1)-th is refused.)
C13_Quota ==
    [][\A u \in DOMAIN users :
          (/\ last = Idle
           /\ last'.op = "stations_create"
           /\ last'.clean
           /\ validate_name(last'.arg)
           /\ CookieOwner(last'.tok) = u)
          => IF users[u].max_stations = 0 - 1
                \/ Cardinality(LiveStationsOf(u)) < users[u].max_stations
             THEN /\ last'.ret = "OK"
                  /\ stations' = Append(stations, [user_id |-> u, name |-> last'.arg,
                                                   deleted_at |-> NoTime])
             ELSE /\ last'.ret = "FORBIDDEN"
                  /\ stations' = stations]_vars

\* A user with quota 1, one active station and one soft-deleted station has
\* just been refused a further station.
C13_Witness ==
    /\ last # Idle
    /\ last.op = "stations_create"
    /\ last.ret = "FORBIDDEN"
    /\ CookieOwner(last.tok) # 0
    /\ users[CookieOwner(last.tok)].max_stations = 1
    /\ Cardinality(LiveStationsOf(CookieOwner(last.tok))) = 1
    /\ \E i \in DOMAIN stations :
          /\ stations[i].user_id = CookieOwner(last.tok)
          /\ stations[i].deleted_at # NoTime

\* The password is the one whose hash the user named by the reference stores.
PasswordOf(userId, password) ==
    /\ password # NULL
    /\ \E u \in DOMAIN users :
          Names(userId, u) /\ users[u].password = PwHashStr(password)

\* C14: a sessions_create that returns OK was given the password of the user
\* named by userRef, hands out a token and has stored a session row of that
\* user under the token's hash; a sessions_create given a wrong or missing
\* password returns AUTH_ERROR and leaves the session rows as they were.
C14_LoginNeedsPassword ==
    /\ [](last # Idle /\ last.op = "sessions_create" /\ last.ret = "OK"
            => /\ PasswordOf(last.ref, last.arg)
               /\ last.token # NoToken
               /\ \E i \in DOMAIN sessions :
                     /\ Names(last.ref, sessions[i].user_id)
                     /\ sessions[i].session_token = TokenHashB64(Decoded(last.token)))
    /\ [][(/\ last = Idle
           /\ last'.op = "sessions_create"
           /\ ~PasswordOf(last'.ref, last'.arg))
          => (last'.ret = "AUTH_ERROR" /\ sessions' = sessions)]_vars

\* A login with a wrong password has just been refused while a session exists.
C14_Witness ==
    /\ last # Idle
    /\ last.op = "sessions_create"
    /\ last.arg = "pw2"
    /\ last.ret = "AUTH_ERROR"
    /\ sessions # <<>>

\* The cookie is the whole token of an unrevoked, unexpired session of an
\* admin who is not soft-deleted.
HoldsAdminSession(tok) ==
    /\ tok # NoToken
    /\ Len(tok) = KEY_ENTROPY
    /\ \E i \in RowsOfCookie(tok) :
          /\ sessions[i].revoked_at = NoTime
          /\ sessions[i].expires_at > now
          /\ users[sessions[i].user_id].is_admin
          /\ users[sessions[i].user_id].deleted_at = NoTime

\* C15: a users_patch whose caller does not hold an admin session leaves
\* max_stations and is_admin of every user as they were, whatever the request
\* carries.
C15_AdminOnlyFields ==
    [][(/\ last = Idle
        /\ last'.op = "users_patch"
        /\ ~HoldsAdminSession(last'.tok))
       => \A u \in DOMAIN users :
             /\ users'[u].max_stations = users[u].max_stations
             /\ users'[u].is_admin = users[u].is_admin]_vars

\* Alice, no admin, has patched her own account with a request carrying
\* max_stations = 0 and is_admin = true; the call returned OK and she still
\* has her quota of 1 and no admin flag.
C15_Witness ==
    /\ last # Idle
    /\ last.op = "users_patch"
    /\ last.ret = "OK"
    /\ last.ref = "alice"
    /\ CookieOwner(last.tok) = 2
    /\ last.arg.maxStations = <<0>>
    /\ last.arg.isAdmin = <<TRUE>>
    /\ users[2].max_stations = 1
    /\ ~users[2].is_admin

\* C16: a users_patch changes a user's stored password hash only if oldPass
\* is the password of that user, the one the reference names; and a
\* users_patch that gets to the password check with oldPass or newPass
\* supplied and oldPass not that password (absent included) returns
\* AUTH_ERROR and leaves the users and the sessions as they were.
C16_PasswordNeedsOld ==
    /\ [][\A u \in DOMAIN users :
             (/\ last = Idle
              /\ last'.op = "users_patch"
              /\ users'[u].password # users[u].password)
             => /\ Names(last'.ref, u)
                /\ last'.arg.pass[1] # NULL
                /\ users[u].password = PwHashStr(last'.arg.pass[1])]_vars
    /\ [][(/\ last = Idle
           /\ last'.op = "users_patch"
           /\ last'.authed
           /\ (last'.arg.pass[1] # NULL \/ last'.arg.pass[2] # NULL)
           /\ ~PasswordOf(last'.ref, last'.arg.pass[1]))
          => /\ last'.ret = "AUTH_ERROR"
             /\ users' = users
             /\ sessions' = sessions]_vars

\* A password change without oldPass has just been refused to a caller whose
\* session was accepted.
C16_Witness ==
    /\ last # Idle
    /\ last.op = "users_patch"
    /\ last.authed
    /\ last.arg.pass = <<NULL, "pw2">>
    /\ last.ret = "AUTH_ERROR"

\* The stored value is the base64 hash of some token's raw bytes and is the
\* text of no token.
HashedAtRest(stored) ==
    /\ \E b \in UninitBuffers : stored = Bin2Base64(GenericHash(b))
    /\ \A b \in UninitBuffers : stored # Bin2Base64(b)

-----------------------------------------------------------------------------
(* Claims about the weather-data queries *)

\* The granularity the request at hand asks for.
AskedGranularity == string_to_granularity(wq.req.granularityStr)

\* The columns whose bit is set in the bitmask, for a granularity: raw
\* readings are selected with dataFlags_t, summaries with summaryFalgs_t.
ColumnsOfBits(fields, granularity) ==
    IF granularity = "DATA"
    THEN {c \in DOMAIN DataFieldFlags : HasFlag(fields, DataFieldFlags[c])}
    ELSE {c \in DOMAIN SummaryFieldFlags : HasFlag(fields, SummaryFieldFlags[c])}

\* C18: for a bitmask B >= 0 and a granularity G, the select list of
\* build_static_query(B, G) is period_start, period_end and then the columns
\* of the bits set in B: none missing, none whose bit is clear, none twice.
C18_ExactColumns ==
    (wq.stage = "static" /\ wq.req.fields >= 0)
        => LET cols == wq.out.columns
           IN  /\ Len(cols) >= 2
               /\ cols[1] = "period_start"
               /\ cols[2] = "period_end"
               /\ {cols[i] : i \in 3..Len(cols)}
                      = ColumnsOfBits(wq.req.fields, AskedGranularity)
               /\ \A i, j \in 3..Len(cols) : cols[i] = cols[j] => i = j

\* C19: weather_data_list composes the static query and sends 3 parameters
\* when the granularity is raw or the requested timezone keeps the offset of
\* DEFAULT_TIMEZONE over the range, and otherwise composes the dynamic query
\* and sends 4; the parameters sent are those the composed text refers to.
C19_PathAndParamsAgree ==
    (wq.stage = "listed" /\ wq.out.path # "none")
        => LET static == \/ wq.req.granularityStr = "raw"
                         \/ same_timezone_offset_during_range(
                                wq.req.startTime, wq.req.endTime, wq.req.timezone,
                                DEFAULT_TIMEZONE)
           IN  /\ wq.out.path = (IF static THEN "static" ELSE "generic")
               /\ wq.out.nParams = (IF static THEN 3 ELSE 4)
               /\ wq.out.query = (IF static
                                  THEN build_static_query(wq.req.fields, AskedGranularity)
                                  ELSE build_generic_weather_query(wq.req.fields))
               /\ wq.out.query.placeholders = wq.out.nParams

\* Daily summaries have been asked for in New York time: the dynamic query
\* was sent with 4 parameters and answered.
C19_Witness ==
    /\ wq.stage = "listed"
    /\ wq.req.granularityStr = "day"
    /\ wq.req.timezone = "America/New_York"
    /\ wq.out.path = "generic"
    /\ wq.out.nParams = 4
    /\ wq.out.ret = "OK"

\* C20: for a bitmask B >= 0 and a granularity G other than raw,
\* build_generic_weather_query(B) has the output columns of
\* build_static_query(B, G), in the same order.
C20_SameColumns ==
    (wq.stage = "generic" /\ wq.req.fields >= 0 /\ AskedGranularity # "DATA")
        => wq.out.columns
               = build_static_query(wq.req.fields, AskedGranularity).columns

-----------------------------------------------------------------------------
(* Claims about the time zone of a weather-data request *)

\* The time-zone string has a single quote in it.
HasQuote(timezone) == \E i \in DOMAIN timezone : timezone[i] = SqlQuote

\* C21: whenever weather_data_list has issued its data SELECT, a SET TIME
\* ZONE built from the request's own timezone had succeeded before it on the
\* same borrowed connection within the same borrow, and the SELECT ran under
\* the zone that statement set (the request's timezone itself when the
\* string has no quote in it), whatever zone an earlier borrower left.
C21_ZoneSetBeforeSelect ==
    \A t \in Threads :
        wq.job[t].stage = "selected" =>
            /\ wq.job[t].setOk
            /\ wq.job[t].setConn = held[t]
            /\ wq.job[t].ranConn = held[t]
            /\ wq.job[t].queryTz = QueryTz(ExecQuote(QuoteQuery(wq.job[t].timezone)).value)
            /\ wq.job[t].ranZone = ExecSetZone(wq.job[t].queryTz).zone
            /\ (~HasQuote(wq.job[t].timezone) => wq.job[t].ranZone = wq.job[t].timezone)

\* A data SELECT has run under the request's zone on a connection on which an
\* earlier borrower had left another zone.
C21_Witness ==
    \E t \in Threads :
        /\ wq.job[t].stage = "selected"
        /\ wq.job[t].timezone = <<"UTC">>
        /\ wq.job[t].foundZone = <<"Europe/Paris">>
        /\ wq.job[t].ranZone = <<"UTC">>

\* C22: in every statement sent for quoting and for SET TIME ZONE the
\* server reads the client's timezone as one string constant whose text is
\* the whole value, with nothing of the value left over as SQL syntax.
C22_TimezoneOnlyData ==
    \A t \in Threads :
        /\ wq.job[t].quoteQuery # <<>> =>
               LET l == LexLiteral(wq.job[t].quoteQuery, 3, <<>>)
               IN  /\ l.closed
                   /\ l.value = wq.job[t].timezone
                   /\ SubSeq(wq.job[t].quoteQuery, l.next, Len(wq.job[t].quoteQuery)) = <<");">>
        /\ wq.job[t].queryTz # <<>> =>
               LET l == LexLiteral(wq.job[t].queryTz, 3, <<>>)
               IN  /\ l.closed
                   /\ l.value = wq.job[t].timezone
                   /\ SubSeq(wq.job[t].queryTz, l.next, Len(wq.job[t].queryTz)) = <<";">>

-----------------------------------------------------------------------------
(* Claims about the responses *)

\* A response has been queued for the request at hand.
Answered == last.op = "http" /\ last.stage = "response"

\* The status the outcome table gives a service code other than OK.
TableStatus(code) ==
    CASE code = "INVALID_PARAMS" -> 400
      [] code = "AUTH_ERROR" -> 401
      [] code = "FORBIDDEN" -> 403
      [] code = "NOT_FOUND" -> 404
      [] code \in {"DB_ERROR", "JSON_ERROR", "MEMORY_ERROR"} -> 500

\* C23: whenever a handler's service returned a code other than OK, the
\* response status is the one the table INVALID_PARAMS 400, AUTH_ERROR 401,
\* FORBIDDEN 403, NOT_FOUND 404, DB_ERROR / JSON_ERROR / MEMORY_ERROR 500
\* gives that code, whichever handler it was.
C23_ErrorStatusTable ==
    (Answered /\ last.response.called # "none" /\ last.response.code # "OK")
        => last.response.httpStatus = TableStatus(last.response.code)

\* stations_create has returned FORBIDDEN and the response is a 403.
C23_Witness ==
    /\ Answered
    /\ last.response.called = "stations_create"
    /\ last.response.code = "FORBIDDEN"
    /\ last.response.httpStatus = 403

\* The success status of a method.
MethodStatus(method) ==
    CASE method \in {"GET", "PATCH"} -> 200
      [] method = "POST" -> 201
      [] method = "DELETE" -> 204

\* The method and path pairs of the HTTP surface.
OnSurface(method, url) ==
    \/ method = "POST" /\ url = <<"users">>
    \/ method \in {"GET", "PATCH", "DELETE"} /\ Len(url) = 2 /\ url[1] = "users"
    \/ method = "POST" /\ Len(url) = 3 /\ Route(url) = "sessions"
    \/ method = "GET" /\ Route(url) = "sessions"
    \/ method = "DELETE" /\ Len(url) = 4 /\ Route(url) = "sessions"
    \/ method = "POST" /\ Len(url) = 3 /\ Route(url) = "api_key"
    \/ method = "GET" /\ Route(url) = "api_key"
    \/ method = "DELETE" /\ Len(url) = 4 /\ Route(url) = "api_key"
    \/ method = "POST" /\ url = <<"stations">>
    \/ method = "GET" /\ Route(url) = "stations"
    \/ method = "GET" /\ Route(url) = "weather_data"

C25_ErrorBodies ==
    (Answered /\ last.response.httpStatus >= 400) => last.response.body.kind = "error"

\* The bytes a token text stands for.
CookieBytes(value) == [i \in 1..Len(value) |-> B64Value(value[i])]

\* C28: a response carries a Set-Cookie header exactly when its request was
\* a sessions_create that returned OK, and the header is then sessiontoken =
\* the plaintext of the token whose hash the new session row stores, with
\* Max-Age 3600.
C28_CookieIffLogin ==
    Answered =>
        /\ (last.response.setCookie # NoCookie)
               <=> (last.response.called = "sessions_create" /\ last.response.code = "OK")
        /\ last.response.setCookie # NoCookie =>
               /\ last.response.setCookie.name = "sessiontoken"
               /\ last.response.setCookie.maxAge = 3600
               /\ sessions # <<>>
               /\ sessions[Len(sessions)].session_token
                      = TokenHashB64(CookieBytes(last.response.setCookie.value))

\* A login has been answered 201 with a cookie, after an earlier one.
C28_Witness ==
    /\ Answered
    /\ last.response.called = "sessions_create"
    /\ last.response.httpStatus = 201
    /\ last.response.setCookie # NoCookie
    /\ Len(sessions) = 2

-----------------------------------------------------------------------------
(* Claims about missing targets *)

\* The call being answered was made by a caller who passed
\* validate_session_token with the session of an administrator, and every
\* query succeeded.
ByAdmin == last.authed /\ last.clean /\ HoldsAdminSession(last.tok)

\* The call being answered is a users_delete, sessions_delete or
\* api_key_delete whose target reference matches no row of its table.
MissingTarget ==
    \/ last.op = "users_delete" /\ MatchUser(users, last.ref) = {}
    \/ last.op = "sessions_delete" /\ last.arg \notin DOMAIN sessions
    \/ /\ last.op = "api_key_delete"
       /\ \A i \in DOMAIN api_keys : KeyUuidTexts[i] # last.arg /\ api_keys[i].name # last.arg

\* C26: users_delete of a nonexistent user, sessions_delete of a nonexistent
\* session UUID and api_key_delete of a nonexistent key, issued by a validly
\* authenticated admin, return NOT_FOUND.
C26_MissingIsNotFound ==
    (last # Idle /\ ByAdmin /\ MissingTarget) => last.ret = "NOT_FOUND"

\* The cookie is the whole token of an unrevoked, unexpired session of a user
\* who is not an admin and not soft-deleted.
NonAdminCaller(tok) ==
    /\ tok # NoToken
    /\ Len(tok) = KEY_ENTROPY
    /\ \A k \in DOMAIN tok : IsB64Char(tok[k])
    /\ \E i \in DOMAIN sessions :
          /\ sessions[i].session_token = TokenHashB64(CookieBytes(tok))
          /\ sessions[i].revoked_at = NoTime
          /\ sessions[i].expires_at > now
          /\ ~users[sessions[i].user_id].is_admin
          /\ users[sessions[i].user_id].deleted_at = NoTime

\* users_list has just answered a call with no userRef made with the cookie
\* of an active non-admin session.
ListedAllAsNonAdmin ==
    /\ last # Idle
    /\ last.op = "users_list"
    /\ last.ref = NULL
    /\ NonAdminCaller(last.tok)

\* C27 (as the code has it): users_list called with no userRef by a caller
\* holding an active non-admin session returns AUTH_ERROR.
C27_NonAdminListIsAuthError == ListedAllAsNonAdmin => last.ret = "AUTH_ERROR"

\* A non-admin has asked for the list of all users and got AUTH_ERROR.
C27_Witness == ListedAllAsNonAdmin /\ last.ret = "AUTH_ERROR"

\* C27 (as stated): users_list called with no userRef by a caller holding an
\* active non-admin session returns NOT_FOUND.
C27_NonAdminListIsNotFound == ListedAllAsNonAdmin => last.ret = "NOT_FOUND"

-----------------------------------------------------------------------------
(* Claims about start-up *)

\* init_pool has returned true.
PoolReady == last.op = "boot" /\ last.stage \in {"server", "running"}

\* C29: once the pool is initialised its size is the number of online
\* processors when MAX_DB_CONN is not set, MAX_DB_CONN when that is a
\* positive integer, and 1 when it is not positive.
C29_PoolSize ==
    PoolReady =>
        last.size = IF last.maxDbConn = <<>> THEN last.nprocs
                    ELSE IF last.maxDbConn[1] > 0 THEN last.maxDbConn[1]
                    ELSE 1

\* Opening a connection failed in init_pool after at least one had been
\* opened, and the process has exited.
PoolFailedMidway ==
    /\ last.op = "boot"
    /\ last.stage = "exited"
    /\ last.i \in 1..(MAX_CONN - 1)
    /\ last.size = 0

\* C30: if opening the i-th connection fails during init_pool, every
\* connection opened before it has been closed again when the process exits
\* with failure, and the HTTP server was never started.
C30_RollbackOnFailure ==
    PoolFailedMidway =>
        /\ last.open = {}
        /\ last.exit = "EXIT_FAILURE"
        /\ ~last.server
        /\ last.nThreads = 0

-----------------------------------------------------------------------------
(* Claims about results as JSON *)

\* pgresult_to_json has returned a document for the result in last.
Converted == last.op = "json" /\ last.stage = "converted" /\ last.out # NoJson

\* The array with one object per row, in row order.
RowsInOrder(res) == JsonArray([i \in 1..Len(res.rows) |-> JsonObject(res.fields, res.rows[i])])

\* C31: pgresult_to_json returns an empty array for zero rows, the single
\* row's object exactly when there is one row and canBeObject is true, and
\* otherwise the array of the rows' objects in row order; a list service
\* called without a reference returns an array whenever it returns OK.
C31_JsonShape ==
    /\ Converted =>
          /\ Len(last.res.rows) = 0 => last.out = JsonArray(<<>>)
          /\ last.out.kind = "object" <=> (Len(last.res.rows) = 1 /\ last.canBeObject)
          /\ last.out.kind = "object" => last.out = JsonObject(last.res.fields, last.res.rows[1])
          /\ last.out.kind # "object" => last.out = RowsInOrder(last.res)
    /\ (last.op = "json" /\ last.stage = "listed" /\ last.ret = "OK" /\ last.ref = NULL) =>
          last.out = RowsInOrder(last.res)

\* C31 witness: a list service without reference answered one row as an array.
C31_Witness ==
    /\ last.op = "json" /\ last.stage = "listed" /\ last.ret = "OK" /\ last.ref = NULL
    /\ Len(last.res.rows) = 1
    /\ last.out.kind = "array"

-----------------------------------------------------------------------------
(* Claims about waking the waiters of the pool *)

\* The slots whose connection is c.
SlotsOf(c) == {i \in DOMAIN pool : pool[i].conn = c}

\* The threads this step moves out of pthread_cond_wait.
WokenNow == {w \in Threads : pc[w] = "wait" /\ pc'[w] = "relock"}

\* Thread t runs release_conn's body in this step.
Releases(t) == pc[t] = "release" /\ pc'[t] = "idle"

-----------------------------------------------------------------------------
(* Claims about the composed text *)

\* C33: for every bitmask B >= 0, B = 0 and masks without a fragment for the
\* granularity included, the text build_static_query and
\* build_generic_weather_query return has no comma left between the last
\* item of the select list and FROM.
C33_NoCommaBeforeFrom ==
    (wq.stage \in {"static", "generic"} /\ wq.req.fields >= 0) => ~wq.out.dangling

-----------------------------------------------------------------------------
(* Claims about repeated and failed changes *)

\* C34: revoking a session is idempotent: a session that is revoked keeps
\* the revoked_at it has, whether sessions_delete is applied to it again or
\* users_patch revokes its owner's sessions afterwards.
C34_RevocationIdempotent ==
    [][\A i \in DOMAIN sessions :
          ~IsNullTime(sessions[i].revoked_at) =>
              sessions'[i].revoked_at = sessions[i].revoked_at]_vars

-----------------------------------------------------------------------------
(* Claims about equivalent time zones *)

\* weather_data_list has compared the request's zone with DEFAULT_TIMEZONE.
Compared == wq.stage = "listed" /\ wq.out.path # "none"

\* The instants start + k * 24h up to end, in days.
Sampled(start, end) == {d \in Days : start <= d /\ d <= end}

\* The two zones have the same total offset on day d.
SameOffsetOn(d) == ZoneOffset(wq.req.timezone, d) = ZoneOffset(DEFAULT_TIMEZONE, d)

\* The comparison said yes exactly when the offsets agree at every sample.
SaidYesIffAllSamplesAgree ==
    wq.out.sameTimezone <=> \A d \in Sampled(wq.req.startTime, wq.req.endTime) : SameOffsetOn(d)

\* C35 (amended): same_timezone_offset_during_range returns true iff the two
\* zones have the same total offset at every instant start + k * 24h <= end;
\* it returns false when the offsets differ at the start instant and start
\* is not after end, and true when start is after end, where nothing is
\* sampled.
C35_SampledOffsets ==
    Compared =>
        /\ SaidYesIffAllSamplesAgree
        /\ (wq.req.startTime <= wq.req.endTime /\ ~SameOffsetOn(wq.req.startTime))
               => ~wq.out.sameTimezone
        /\ wq.req.startTime > wq.req.endTime => wq.out.sameTimezone

\* C35 witness: Lagos has Madrid's offset at the start and not a day later,
\* and the comparison over both days said no.
C35_Witness ==
    /\ Compared
    /\ wq.req.timezone = "Africa/Lagos"
    /\ wq.req.startTime = 1 /\ wq.req.endTime = 2
    /\ ~wq.out.sameTimezone

\* C35 (as claimed): true iff the offsets agree at every sample, and false
\* whenever the offsets differ at the start instant.
C35_FalseWhenStartDiffers ==
    Compared =>
        /\ SaidYesIffAllSamplesAgree
        /\ ~SameOffsetOn(wq.req.startTime) => ~wq.out.sameTimezone

-----------------------------------------------------------------------------
(* Claims about concurrent calls *)

\* C36: the station quota holds under concurrent stations_create calls on
\* different connections: a user with max_stations = k >= 0 never has more
\* than k active stations.
C36_QuotaHolds ==
    \A u \in DOMAIN users :
        users[u].max_stations >= 0 => ActiveStationCount(stations, u) <= users[u].max_stations

-----------------------------------------------------------------------------
(* Claims about the request body *)

\* C37: while a body is accumulated every write stays inside the buffer of
\* MAX_POST_DATA_SIZE bytes: postDataSize <= MAX_POST_DATA_SIZE, the
\* terminating NUL is written at an index below the capacity, and a chunk
\* that is refused with MHD_NO leaves the text as it was.
C37_WritesInsideBuffer ==
    last.op = "body" =>
        /\ last.postDataSize <= MAX_POST_DATA_SIZE
        /\ last.nulIndex < MAX_POST_DATA_SIZE
        /\ last.answer = "MHD_NO" => last.postData = last.prev

-----------------------------------------------------------------------------
(* Claims about failed account changes *)

\* This step is a users_patch call that returns one of the error codes.
PatchFails ==
    /\ last = Idle
    /\ last'.op = "users_patch"
    /\ last'.ret \in {"AUTH_ERROR", "NOT_FOUND", "DB_ERROR", "MEMORY_ERROR", "JSON_ERROR"}

\* C38: users_patch is all-or-nothing: when it returns a code other than OK
\* the rows of auth.users and the revoked_at of every session are what they
\* were before the call.
C38_PatchAllOrNothing ==
    [][PatchFails =>
          /\ users' = users
          /\ Len(sessions') = Len(sessions)
          /\ \A i \in DOMAIN sessions : sessions'[i].revoked_at = sessions[i].revoked_at]_vars


\* C39: under any interleaving of a sessions_create for Alice with a
\* users_patch that changes her password, once users_patch has returned OK
\* no active session of hers was authenticated against the old password.
C39_NoSessionOfOldPassword ==
    wq.patched =>
        \A i \in DOMAIN sessions :
            (sessions[i].user_id = 2 /\ IsNullTime(sessions[i].revoked_at))
                => wq.auth[i] = users[2].password

-----------------------------------------------------------------------------
(* Claims about requested field names *)

\* The names the request lists.
Requested == {wq.names[i] : i \in DOMAIN wq.names}

\* The columns the composed query selects besides the period and the
\* granularity.
FieldColumns ==
    {wq.out.columns[i] : i \in DOMAIN wq.out.columns}
        \ {"period_start", "period_end", "granularity"}

\* C40: a requested field name contributes a column only under the
\* granularity family it belongs to: every column selected carries a name
\* the request lists, so a raw name adds no summary column under hour, day,
\* month or year, and a summary name adds no raw column under raw.
C40_ColumnsOfOwnFamily ==
    wq.stage = "composed" => FieldColumns \subseteq Requested

====
